---- MODULE Spec2Model ----
(***************************************************************************)
(* Model of the session-gated web UI gateway of src/openai/src/serve/ui.rs *)
(*                                                                         *)
(* Four specifications:                                                    *)
(*   SpecCodec  - the Session cookie codec (to_string / try_from) applied  *)
(*                to bounded sets of Session values and cookie strings;    *)
(*   Spec       - the request handlers, one action per handler;            *)
(*   SpecRoutes - the route table of config() applied to request lines;    *)
(*   SpecInit   - concurrent callers of config() racing through INIT.      *)
(*                                                                         *)
(* Conventions.  A Rust String is a sequence of Unicode scalar values, a   *)
(* byte string a sequence of 0..255, an Option is <<>> (None) or <<v>>     *)
(* (Some(v)), an i64 is a canonical decimal numeral [neg, mag] so that the *)
(* full 64-bit range is representable.                                     *)
(***************************************************************************)
EXTENDS Integers, Sequences, FiniteSets, TLC

VARIABLES
    TEMPLATE_DATA,   \* ui.rs:39   the process-wide TemplateData
    STATIC_FILES,    \* ui.rs:37   the asset map, key -> Resource
    req,             \* the request being answered (route and inputs)
    resp,            \* the response produced for req
    calls,           \* outbound calls issued while handling req, in order
    codec_in,        \* SpecCodec: the Session being encoded (or None)
    codec_str,       \* SpecCodec: the cookie string under test
    codec_out,       \* SpecCodec: the result of Session::try_from(codec_str)
    routed,          \* SpecRoutes: a request line and the handler it reached
    boot             \* SpecInit: the one-shot initialization of config()

vars == <<TEMPLATE_DATA, STATIC_FILES, req, resp, calls, codec_in, codec_str, codec_out,
          routed, boot>>

(***************************************************************************)
(* Bounds                                                                  *)
(***************************************************************************)
\* longest string put in the varied field of a Session
MaxStrLen == 2
\* number of segments an upstream continue_conversation_url is built from
MaxUrlSegs == 2
\* longest path asked of the static resolver
MaxPathLen == 2

(***************************************************************************)
(* Option, characters, strings                                             *)
(***************************************************************************)
None == <<>>
Some(v) == <<v>>
IsSome(o) == Len(o) = 1
Unwrap(o) == o[1]

\* the printable ASCII characters 32..95 and 97..126, in code order
PrintableLo ==
    <<" ", "!", "\"", "#", "$", "%", "&", "'", "(", ")", "*", "+", ",", "-", ".", "/",
      "0", "1", "2", "3", "4", "5", "6", "7", "8", "9", ":", ";", "<", "=", ">", "?",
      "@", "A", "B", "C", "D", "E", "F", "G", "H", "I", "J", "K", "L", "M", "N", "O",
      "P", "Q", "R", "S", "T", "U", "V", "W", "X", "Y", "Z", "[", "\\", "]", "^", "_">>

PrintableHi ==
    <<"a", "b", "c", "d", "e", "f", "g", "h", "i", "j", "k", "l", "m", "n", "o",
      "p", "q", "r", "s", "t", "u", "v", "w", "x", "y", "z", "{", "|", "}", "~">>

CodeOf ==
    [ch \in {PrintableLo[i] : i \in 1..Len(PrintableLo)}
              \cup {PrintableHi[i] : i \in 1..Len(PrintableHi)} |->
        IF \E i \in 1..Len(PrintableLo) : PrintableLo[i] = ch
        THEN 31 + (CHOOSE i \in 1..Len(PrintableLo) : PrintableLo[i] = ch)
        ELSE 96 + (CHOOSE i \in 1..Len(PrintableHi) : PrintableHi[i] = ch)]

\* a string literal, written as a tuple of one-character strings
Str(t) == <<>> \o [i \in 1..Len(t) |-> CodeOf[t[i]]]

\* the concatenation of a sequence of sequences
RECURSIVE Flatten(_)
Flatten(ss) ==
    IF Len(ss) = 0 THEN <<>>
    ELSE IF Len(ss) = 1 THEN ss[1]
    ELSE Flatten(SubSeq(ss, 1, Len(ss) \div 2))
         \o Flatten(SubSeq(ss, (Len(ss) \div 2) + 1, Len(ss)))

\* all sequences over S of length at most n
RECURSIVE SeqsUpTo(_, _)
SeqsUpTo(S, n) ==
    IF n = 0 THEN {<<>>}
    ELSE LET shorter == SeqsUpTo(S, n - 1)
         IN  shorter \cup {Append(s, x) : s \in shorter, x \in S}

(***************************************************************************)
(* i64 as a canonical decimal numeral                                      *)
(***************************************************************************)
\* digits of a natural number, most significant first
RECURSIVE NatDigits(_)
NatDigits(n) == IF n < 10 THEN <<n>> ELSE Append(NatDigits(n \div 10), n % 10)

I64(n) == [neg |-> n < 0, mag |-> NatDigits(IF n < 0 THEN 0 - n ELSE n)]

\* |i64::MIN| = 9223372036854775808 and i64::MAX = 9223372036854775807
I64MinMag == <<9,2,2,3,3,7,2,0,3,6,8,5,4,7,7,5,8,0,8>>
I64MaxMag == <<9,2,2,3,3,7,2,0,3,6,8,5,4,7,7,5,8,0,7>>
I64_MIN == [neg |-> TRUE, mag |-> I64MinMag]
I64_MAX == [neg |-> FALSE, mag |-> I64MaxMag]

\* a <= b for digit sequences of one length: equal, or smaller at the
\* first digit that differs
DigitsLeqSameLen(a, b) ==
    \/ a = b
    \/ \E k \in 1..Len(a) : a[k] < b[k] /\ \A j \in 1..(k - 1) : a[j] = b[j]

DigitsLeq(a, b) ==
    IF Len(a) # Len(b) THEN Len(a) < Len(b) ELSE DigitsLeqSameLen(a, b)

(***************************************************************************)
(* struct Session (ui.rs:41-50) and its field names                        *)
(***************************************************************************)
K_refresh_token == Str(<<"r","e","f","r","e","s","h","_","t","o","k","e","n">>)
K_access_token  == Str(<<"a","c","c","e","s","s","_","t","o","k","e","n">>)
K_user_id       == Str(<<"u","s","e","r","_","i","d">>)
K_email         == Str(<<"e","m","a","i","l">>)
K_picture       == Str(<<"p","i","c","t","u","r","e">>)
K_expires_in    == Str(<<"e","x","p","i","r","e","s","_","i","n">>)
K_expires       == Str(<<"e","x","p","i","r","e","s">>)

\* the fields in declaration order, which is the order serde writes them
\* and the order a JSON array is read in
SessionFields ==
    << [name |-> "refresh_token", key |-> K_refresh_token, type |-> "opt_string"],
       [name |-> "access_token",  key |-> K_access_token,  type |-> "string"],
       [name |-> "user_id",       key |-> K_user_id,       type |-> "string"],
       [name |-> "email",         key |-> K_email,         type |-> "string"],
       [name |-> "picture",       key |-> K_picture,       type |-> "opt_string"],
       [name |-> "expires_in",    key |-> K_expires_in,    type |-> "i64"],
       [name |-> "expires",       key |-> K_expires,       type |-> "i64"] >>

FieldNames == {SessionFields[i].name : i \in 1..Len(SessionFields)}

Session(rt, at, uid, em, pic, ein, ex) ==
    [refresh_token |-> rt, access_token |-> at, user_id |-> uid, email |-> em,
     picture |-> pic, expires_in |-> ein, expires |-> ex]

(***************************************************************************)
(* serde_json::to_string(&Session)  (ui.rs:54-55)                          *)
(***************************************************************************)
\* UTF-8 encoding of one scalar value
Utf8(cp) ==
    CASE cp < 128 -> <<cp>>
      [] cp \in 128..2047 -> <<192 + (cp \div 64), 128 + (cp % 64)>>
      [] cp \in 2048..65535 ->
            <<224 + (cp \div 4096), 128 + ((cp \div 64) % 64), 128 + (cp % 64)>>
      [] OTHER -> <<240 + (cp \div 262144), 128 + ((cp \div 4096) % 64),
                    128 + ((cp \div 64) % 64), 128 + (cp % 64)>>

HexDigit(n) == IF n < 10 THEN 48 + n ELSE 87 + n

\* a writer that escapes nothing: the behaviour the serializer must not have
WriteRaw(cp) == Utf8(cp)

\* serde_json's escape table: \" \\ \b \t \n \f \r, \u00XX for the other
\* control characters, everything else written as UTF-8
EscapeChar(cp) ==
    CASE cp = 34 -> <<92, 34>>
      [] cp = 92 -> <<92, 92>>
      [] cp = 8  -> <<92, 98>>
      [] cp = 9  -> <<92, 116>>
      [] cp = 10 -> <<92, 110>>
      [] cp = 12 -> <<92, 102>>
      [] cp = 13 -> <<92, 114>>
      [] cp < 32 /\ cp \notin {8, 9, 10, 12, 13} ->
            <<92, 117, 48, 48, HexDigit(cp \div 16), HexDigit(cp % 16)>>
      [] OTHER -> Utf8(cp)

JsonString(s) ==
    <<34>> \o Flatten(<<>> \o [i \in 1..Len(s) |-> EscapeChar(s[i])]) \o <<34>>

JsonNull == Str(<<"n","u","l","l">>)

JsonOptString(o) == IF IsSome(o) THEN JsonString(Unwrap(o)) ELSE JsonNull

JsonI64(n) == (IF n.neg THEN <<45>> ELSE <<>>) \o [i \in 1..Len(n.mag) |-> 48 + n.mag[i]]

JsonFieldValue(s, f) ==
    IF f.type = "opt_string" THEN JsonOptString(s[f.name])
    ELSE IF f.type = "string" THEN JsonString(s[f.name])
    ELSE JsonI64(s[f.name])

\* an object text from its members [key, val], both already serialized
JsonObject(members) ==
    <<123>>
    \o Flatten(<<>> \o [i \in 1..Len(members) |->
                            (IF i = 1 THEN <<>> ELSE <<44>>)
                            \o members[i].key \o <<58>> \o members[i].val])
    \o <<125>>

\* the members serde writes for a Session, in declaration order
SessionMembers(s) ==
    <<>> \o [i \in 1..Len(SessionFields) |->
        [key |-> JsonString(SessionFields[i].key),
         val |-> JsonFieldValue(s, SessionFields[i])]]

\* {"refresh_token":...,"access_token":...,...}
to_json(s) == JsonObject(SessionMembers(s))

(***************************************************************************)
(* base64::engine::general_purpose::URL_SAFE  (ui.rs:56, 64-65)            *)
(***************************************************************************)
\* the URL-safe alphabet: A-Z a-z 0-9 - _
B64Char(v) ==
    CASE v < 26 -> 65 + v
      [] v \in 26..51 -> 71 + v
      [] v \in 52..61 -> v - 4
      [] v = 62 -> 45
      [] OTHER -> 95

\* -1 for a byte outside the alphabet
B64Val(c) ==
    CASE c \in 65..90 -> c - 65
      [] c \in 97..122 -> c - 71
      [] c \in 48..57 -> c + 4
      [] c = 45 -> 62
      [] c = 95 -> 63
      [] OTHER -> 0 - 1

B64Pad == CodeOf["="]

\* encode, with '=' padding.  Output symbol k belongs to the group of three
\* bytes g = (k - 1) \div 4; bytes past the end of the input count as zero
\* and the symbols made only of them are padding.
b64_encode(b) ==
    LET n == Len(b)
        At(j) == IF j <= n THEN b[j] ELSE 0
        Symbol(k) ==
            LET g  == (k - 1) \div 4
                p  == (k - 1) % 4
                x1 == At((3 * g) + 1)
                x2 == At((3 * g) + 2)
                x3 == At((3 * g) + 3)
            IN  CASE p = 0 -> B64Char(x1 \div 4)
                  [] p = 1 -> B64Char(((x1 % 4) * 16) + (x2 \div 16))
                  [] p = 2 /\ (3 * g) + 2 > n -> B64Pad
                  [] p = 2 /\ (3 * g) + 2 <= n ->
                        B64Char(((x2 % 16) * 4) + (x3 \div 64))
                  [] p = 3 /\ (3 * g) + 3 > n -> B64Pad
                  [] OTHER -> B64Char(x3 % 64)
    IN  <<>> \o [k \in 1..(4 * ((n + 2) \div 3)) |-> Symbol(k)]

DecodeErr == [ok |-> FALSE, bytes |-> <<>>]

\* decode: the length is a multiple of four, padding is one or two '=' at
\* the end and nowhere else, every other byte is in the alphabet, and the
\* bits of the last symbol that no output byte takes are zero
b64_decode(c) ==
    LET n   == Len(c)
        pad == IF n > 0 /\ c[n] = B64Pad
               THEN (IF n > 1 /\ c[n - 1] = B64Pad THEN 2 ELSE 1)
               ELSE 0
        V(j) == B64Val(c[j])
        Byte(k) ==
            LET g == (k - 1) \div 3
                p == (k - 1) % 3
            IN  CASE p = 0 -> (V((4 * g) + 1) * 4) + (V((4 * g) + 2) \div 16)
                  [] p = 1 -> ((V((4 * g) + 2) % 16) * 16) + (V((4 * g) + 3) \div 4)
                  [] OTHER -> ((V((4 * g) + 3) % 4) * 64) + V((4 * g) + 4)
    IN  IF \/ n % 4 # 0
           \/ \E j \in 1..(n - pad) : V(j) < 0
           \/ pad = 2 /\ V(n - 2) % 16 # 0
           \/ pad = 1 /\ V(n - 1) % 4 # 0
        THEN DecodeErr
        ELSE [ok |-> TRUE,
              bytes |-> <<>> \o [k \in 1..((3 * (n \div 4)) - pad) |-> Byte(k)]]

(***************************************************************************)
(* serde_json::from_slice::<Session>  (ui.rs:67)                           *)
(*                                                                         *)
(* A parse step returns [ok, pos, val]: pos is the index of the first byte *)
(* not consumed.                                                           *)
(***************************************************************************)
ParseErr == [ok |-> FALSE, pos |-> 0, val |-> <<>>]
ParseOk(p, v) == [ok |-> TRUE, pos |-> p, val |-> v]

\* the byte at i, or -1 at the end of the input
Peek(b, i) == IF i >= 1 /\ i <= Len(b) THEN b[i] ELSE 0 - 1

IsWs(c) == c \in {32, 10, 9, 13}
IsDigit(c) == c \in 48..57

\* the classes of bytes a scan runs over: whitespace, digits, the ASCII
\* characters that stand for themselves in a string, and the bytes a
\* skipped string passes over unchecked
InClass(c, class) ==
    CASE class = "ws"    -> IsWs(c)
      [] class = "digit" -> IsDigit(c)
      [] class = "plain" -> c >= 32 /\ c < 128 /\ c # 34 /\ c # 92
      [] class = "skip"  -> c >= 32 /\ c # 34 /\ c # 92

\* the first position from i on whose byte is not in the class, or the
\* position after the last byte
ScanWhile(b, i, class) ==
    IF i > Len(b) THEN i
    ELSE CHOOSE j \in i..(Len(b) + 1) :
            /\ j > Len(b) \/ ~InClass(b[j], class)
            /\ \A k \in i..(j - 1) : InClass(b[k], class)

SkipWs(b, i) == ScanWhile(b, i, "ws")

\* the bytes of lit are at b[i..]
Matches(b, i, lit) ==
    /\ i + Len(lit) - 1 <= Len(b)
    /\ \A k \in 1..Len(lit) : b[i + k - 1] = lit[k]

IsCont(c) == c \in 128..191

\* one UTF-8 encoded scalar value of two to four bytes starting at i
DecodeUtf8(b, i) ==
    LET b0 == Peek(b, i)
        b1 == Peek(b, i + 1)
        b2 == Peek(b, i + 2)
        b3 == Peek(b, i + 3)
    IN  CASE b0 \in 194..223 /\ IsCont(b1) ->
                ParseOk(i + 2, (b0 - 192) * 64 + (b1 - 128))
          [] /\ b0 \in 224..239 /\ IsCont(b1) /\ IsCont(b2)
             /\ (b0 = 224 => b1 >= 160)
             /\ (b0 = 237 => b1 <= 159) ->
                ParseOk(i + 3, (b0 - 224) * 4096 + (b1 - 128) * 64 + (b2 - 128))
          [] /\ b0 \in 240..244 /\ IsCont(b1) /\ IsCont(b2) /\ IsCont(b3)
             /\ (b0 = 240 => b1 >= 144)
             /\ (b0 = 244 => b1 <= 143) ->
                ParseOk(i + 4, (b0 - 240) * 262144 + (b1 - 128) * 4096
                                 + (b2 - 128) * 64 + (b3 - 128))
          [] OTHER -> ParseErr

\* -1 for a byte that is no hexadecimal digit
HexVal(c) ==
    CASE c \in 48..57 -> c - 48
      [] c \in 97..102 -> c - 87
      [] c \in 65..70 -> c - 55
      [] OTHER -> 0 - 1

\* the four hex digits at i, or -1
Hex4(b, i) ==
    LET h == [k \in 0..3 |-> HexVal(Peek(b, i + k))]
    IN  IF \E k \in 0..3 : h[k] < 0 THEN 0 - 1
        ELSE h[0] * 4096 + h[1] * 256 + h[2] * 16 + h[3]

\* the low surrogate escaped at i, or -1
LowSurrogate(b, i) ==
    IF Peek(b, i) = 92 /\ Peek(b, i + 1) = 117 /\ Hex4(b, i + 2) \in 56320..57343
    THEN Hex4(b, i + 2)
    ELSE 0 - 1

\* the \uXXXX escape whose backslash is at i: a lone low surrogate is an
\* error, a high surrogate needs an escaped low surrogate after it
ParseUnicode(b, i, n1) ==
    CASE n1 < 0 \/ n1 \in 56320..57343 -> ParseErr
      [] n1 \in 55296..56319 /\ LowSurrogate(b, i + 6) < 0 -> ParseErr
      [] n1 \in 55296..56319 /\ LowSurrogate(b, i + 6) >= 0 ->
            ParseOk(i + 12, 65536 + (n1 - 55296) * 1024
                                  + (LowSurrogate(b, i + 6) - 56320))
      [] OTHER -> ParseOk(i + 6, n1)

\* the escape whose backslash is at i
ParseEscape(b, i) ==
    CASE Peek(b, i + 1) = 34  -> ParseOk(i + 2, 34)
      [] Peek(b, i + 1) = 92  -> ParseOk(i + 2, 92)
      [] Peek(b, i + 1) = 47  -> ParseOk(i + 2, 47)
      [] Peek(b, i + 1) = 98  -> ParseOk(i + 2, 8)
      [] Peek(b, i + 1) = 102 -> ParseOk(i + 2, 12)
      [] Peek(b, i + 1) = 110 -> ParseOk(i + 2, 10)
      [] Peek(b, i + 1) = 114 -> ParseOk(i + 2, 13)
      [] Peek(b, i + 1) = 116 -> ParseOk(i + 2, 9)
      [] Peek(b, i + 1) = 117 -> ParseUnicode(b, i, Hex4(b, i + 2))
      [] OTHER -> ParseErr

\* the characters of a string up to its closing quote; i is past the opening one
RECURSIVE ParseChars(_, _, _)

\* the escape or the multi-byte character read as e
AfterChar(b, e, acc) ==
    IF e.ok THEN ParseChars(b, e.pos, Append(acc, e.val)) ELSE ParseErr

\* j is at the first byte that is no plain character
CharsAt(b, j, acc) ==
    CASE Peek(b, j) = 34 -> ParseOk(j + 1, acc)
      [] Peek(b, j) = 92 -> AfterChar(b, ParseEscape(b, j), acc)
      [] Peek(b, j) >= 128 -> AfterChar(b, DecodeUtf8(b, j), acc)
      [] OTHER -> ParseErr

\* the run of plain characters b[i..j-1] is copied
PlainRun(b, i, j, acc) == CharsAt(b, j, acc \o SubSeq(b, i, j - 1))

ParseChars(b, i, acc) == PlainRun(b, i, ScanWhile(b, i, "plain"), acc)

\* a string value; i is at its first byte
ParseString(b, i) == IF Peek(b, i) = 34 THEN ParseChars(b, i + 1, <<>>) ELSE ParseErr

\* Option<String>: null or a string
SomeString(s) == IF s.ok THEN ParseOk(s.pos, Some(s.val)) ELSE ParseErr

ParseOptString(b, i) ==
    IF Peek(b, i) = 110
    THEN IF Matches(b, i, JsonNull) THEN ParseOk(i + 4, None) ELSE ParseErr
    ELSE SomeString(ParseString(b, i))

\* the digits b[i..j-1]
DigitRun(b, i, j) == ParseOk(j, <<>> \o [k \in 1..(j - i) |-> b[i + k - 1] - 48])

ParseDigits(b, i) == DigitRun(b, i, ScanWhile(b, i, "digit"))

\* the digits of an integer literal: a single 0, or a digit 1-9 and more
ParseMagnitude(b, j) ==
    CASE Peek(b, j) = 48 -> ParseOk(j + 1, <<0>>)
      [] Peek(b, j) \in 49..57 -> ParseDigits(b, j)
      [] OTHER -> ParseErr

\* i64: an integer literal in range; a fraction, an exponent, "-0" or an
\* out-of-range literal is read as a float, which is a type error
CheckI64(b, neg, d) ==
    IF \/ ~d.ok
       \/ IsDigit(Peek(b, d.pos))
       \/ Peek(b, d.pos) \in {46, 101, 69}
       \/ neg /\ d.val = <<0>>
       \/ ~DigitsLeq(d.val, IF neg THEN I64MinMag ELSE I64MaxMag)
    THEN ParseErr
    ELSE ParseOk(d.pos, [neg |-> neg, mag |-> d.val])

ParseI64(b, i) ==
    IF Peek(b, i) = 45 THEN CheckI64(b, TRUE, ParseMagnitude(b, i + 1))
    ELSE CheckI64(b, FALSE, ParseMagnitude(b, i))

ParseTyped(b, i, type) ==
    CASE type = "opt_string" -> ParseOptString(b, i)
      [] type = "string" -> ParseString(b, i)
      [] type = "i64" -> ParseI64(b, i)

(* The value of a key that is no field of Session is skipped (IgnoredAny): *)
(* any well-formed JSON value.  A skip returns the next position, 0 when   *)
(* the value is malformed.                                                 *)
SkipDigits(b, i) == ScanWhile(b, i, "digit")

\* the exponent whose 'e' is at i
SkipExponent(b, i) ==
    IF Peek(b, i + 1) \in {43, 45}
    THEN (IF IsDigit(Peek(b, i + 2)) THEN SkipDigits(b, i + 2) ELSE 0)
    ELSE (IF IsDigit(Peek(b, i + 1)) THEN SkipDigits(b, i + 1) ELSE 0)

\* an exponent at m, if there is one
SkipOptExponent(b, m) == IF Peek(b, m) \in {101, 69} THEN SkipExponent(b, m) ELSE m

\* the fraction and exponent after the integer part, which ended before k
SkipFraction(b, k) ==
    CASE k = 0 -> 0
      [] k # 0 /\ Peek(b, k) = 46 /\ IsDigit(Peek(b, k + 1)) ->
            SkipOptExponent(b, SkipDigits(b, k + 1))
      [] k # 0 /\ Peek(b, k) = 46 /\ ~IsDigit(Peek(b, k + 1)) -> 0
      [] OTHER -> SkipOptExponent(b, k)

\* the integer part at j
SkipInteger(b, j) ==
    CASE Peek(b, j) = 48 /\ IsDigit(Peek(b, j + 1)) -> 0
      [] Peek(b, j) = 48 /\ ~IsDigit(Peek(b, j + 1)) -> j + 1
      [] Peek(b, j) \in 49..57 -> SkipDigits(b, j)
      [] OTHER -> 0

SkipNumber(b, i) ==
    SkipFraction(b, SkipInteger(b, IF Peek(b, i) = 45 THEN i + 1 ELSE i))

\* a skipped string: escapes are checked, UTF-8 is not; i is past the quote
RECURSIVE SkipChars(_, _)

\* j is at the first byte that is a quote, a backslash, a control
\* character or the end
SkipCharsAt(b, j) ==
    CASE Peek(b, j) = 34 -> j + 1
      [] Peek(b, j) = 92
         /\ Peek(b, j + 1) \in {34, 92, 47, 98, 102, 110, 114, 116} ->
            SkipChars(b, j + 2)
      [] Peek(b, j) = 92 /\ Peek(b, j + 1) = 117 /\ Hex4(b, j + 2) >= 0 ->
            SkipChars(b, j + 6)
      [] OTHER -> 0

SkipChars(b, i) == SkipCharsAt(b, ScanWhile(b, i, "skip"))

JsonTrue  == Str(<<"t","r","u","e">>)
JsonFalse == Str(<<"f","a","l","s","e">>)

RECURSIVE SkipValue(_, _)
RECURSIVE SkipElements(_, _)
RECURSIVE SkipMembers(_, _)

\* i is at the first byte of the value
SkipValue(b, i) ==
    CASE Peek(b, i) = 110 -> (IF Matches(b, i, JsonNull) THEN i + 4 ELSE 0)
      [] Peek(b, i) = 116 -> (IF Matches(b, i, JsonTrue) THEN i + 4 ELSE 0)
      [] Peek(b, i) = 102 -> (IF Matches(b, i, JsonFalse) THEN i + 5 ELSE 0)
      [] Peek(b, i) = 34 -> SkipChars(b, i + 1)
      [] Peek(b, i) = 45 \/ IsDigit(Peek(b, i)) -> SkipNumber(b, i)
      [] Peek(b, i) = 91 -> SkipElements(b, SkipWs(b, i + 1))
      [] Peek(b, i) = 123 -> SkipMembers(b, SkipWs(b, i + 1))
      [] OTHER -> 0

\* after an element or a member that ended before j (0: it was malformed):
\* the closing byte, or a comma and the next one
AfterElement(b, j) ==
    CASE j # 0 /\ Peek(b, j) = 93 -> j + 1
      [] j # 0 /\ Peek(b, j) = 44 /\ Peek(b, SkipWs(b, j + 1)) # 93 ->
            SkipElements(b, SkipWs(b, j + 1))
      [] OTHER -> 0

AfterMember(b, j) ==
    CASE j # 0 /\ Peek(b, j) = 125 -> j + 1
      [] j # 0 /\ Peek(b, j) = 44 /\ Peek(b, SkipWs(b, j + 1)) # 125 ->
            SkipMembers(b, SkipWs(b, j + 1))
      [] OTHER -> 0

\* 0 stays 0, any other position moves past whitespace
WsAfter(b, p) == IF p = 0 THEN 0 ELSE SkipWs(b, p)

\* the elements of an array up to its ']'; i is at the first byte after
\* '[' and whitespace, or at the first byte of an element after a comma
SkipElements(b, i) ==
    IF Peek(b, i) = 93 THEN i + 1
    ELSE AfterElement(b, WsAfter(b, SkipValue(b, i)))

\* the value of a member whose key ended before c
SkipMemberValue(b, c) ==
    IF c # 0 /\ Peek(b, c) = 58 THEN SkipValue(b, SkipWs(b, c + 1)) ELSE 0

\* the members of an object up to its '}'; i is at the first byte after
\* '{' and whitespace, or at the first byte of a key after a comma
SkipMembers(b, i) ==
    CASE Peek(b, i) = 125 -> i + 1
      [] Peek(b, i) = 34 ->
            AfterMember(b, WsAfter(b, SkipMemberValue(b, WsAfter(b, SkipChars(b, i + 1)))))
      [] OTHER -> 0

\* the field a key names, 0 when it names none
FieldIndex(key) ==
    IF \E n \in 1..Len(SessionFields) : SessionFields[n].key = key
    THEN CHOOSE n \in 1..Len(SessionFields) : SessionFields[n].key = key
    ELSE 0

NoFields == [n \in FieldNames |-> None]

\* the struct from the fields read: a missing Option field is None, any
\* other missing field is an error
BuildSession(got, p) ==
    IF \E n \in 1..Len(SessionFields) :
          SessionFields[n].type # "opt_string" /\ got[SessionFields[n].name] = None
    THEN ParseErr
    ELSE ParseOk(p, [n \in FieldNames |->
                       IF got[n] = None THEN None ELSE Unwrap(got[n])])

\* got with the value read as prev stored for field f (0: no field)
Stored(got, f, prev) ==
    IF f = 0 THEN got ELSE [got EXCEPT ![SessionFields[f].name] = Some(prev.val)]

\* the result of skipping a value up to s (0: it was malformed)
Skipped(s) == IF s = 0 THEN ParseErr ELSE ParseOk(s, <<>>)

\* the colon after the key read as key, and the value after the colon
ColonAt(b, key) == SkipWs(b, key.pos)
ValueAt(b, key) == SkipWs(b, ColonAt(b, key) + 1)

RECURSIVE Members(_, _, _, _, _)

\* the member whose key was read as key: a colon, then the value, which is
\* skipped for an unknown key; a field given twice is an error
Member(b, key, got) ==
    CASE ~key.ok -> ParseErr
      [] key.ok /\ Peek(b, ColonAt(b, key)) # 58 -> ParseErr
      [] key.ok /\ Peek(b, ColonAt(b, key)) = 58 /\ FieldIndex(key.val) = 0 ->
            Members(b, Skipped(SkipValue(b, ValueAt(b, key))), 0, got, FALSE)
      [] key.ok /\ Peek(b, ColonAt(b, key)) = 58 /\ FieldIndex(key.val) # 0
         /\ got[SessionFields[FieldIndex(key.val)].name] # None -> ParseErr
      [] OTHER ->
            Members(b, ParseTyped(b, ValueAt(b, key),
                                  SessionFields[FieldIndex(key.val)].type),
                    FieldIndex(key.val), got, FALSE)

\* the members after the step that read prev for field f (0: the opening
\* brace or an unknown key): the end of the object, or a key (a string),
\* after a comma unless it is the first
Members(b, prev, f, got, first) ==
    CASE ~prev.ok -> ParseErr
      [] prev.ok /\ Peek(b, SkipWs(b, prev.pos)) = 125 ->
            BuildSession(Stored(got, f, prev), SkipWs(b, prev.pos) + 1)
      [] prev.ok /\ Peek(b, SkipWs(b, prev.pos)) # 125 /\ first ->
            Member(b, ParseString(b, SkipWs(b, prev.pos)), Stored(got, f, prev))
      [] prev.ok /\ Peek(b, SkipWs(b, prev.pos)) = 44 /\ ~first ->
            Member(b, ParseString(b, SkipWs(b, SkipWs(b, prev.pos) + 1)),
                   Stored(got, f, prev))
      [] OTHER -> ParseErr

\* visit_map: the members of the object; i is after '{'
VisitMap(b, i) == Members(b, ParseOk(i, <<>>), 0, NoFields, TRUE)

RECURSIVE Elements(_, _, _, _)

\* the elements after the step that read prev for element n - 1 (n = 1:
\* the opening bracket): element n after a comma unless it is the first,
\* or the end of the array after the last field; ']' in place of an
\* element is a missing element or a trailing comma
Elements(b, prev, got, n) ==
    CASE ~prev.ok -> ParseErr
      [] prev.ok /\ n > Len(SessionFields) /\ Peek(b, SkipWs(b, prev.pos)) = 93 ->
            BuildSession(Stored(got, n - 1, prev), SkipWs(b, prev.pos) + 1)
      [] prev.ok /\ n = 1 /\ Peek(b, SkipWs(b, prev.pos)) # 93 ->
            Elements(b, ParseTyped(b, SkipWs(b, prev.pos), SessionFields[n].type),
                     got, n + 1)
      [] prev.ok /\ n \in 2..Len(SessionFields)
         /\ Peek(b, SkipWs(b, prev.pos)) = 44
         /\ Peek(b, SkipWs(b, SkipWs(b, prev.pos) + 1)) # 93 ->
            Elements(b, ParseTyped(b, SkipWs(b, SkipWs(b, prev.pos) + 1),
                                   SessionFields[n].type),
                     Stored(got, n - 1, prev), n + 1)
      [] OTHER -> ParseErr

\* visit_seq: the fields in declaration order as the elements of an array
VisitSeq(b, i) == Elements(b, ParseOk(i, <<>>), NoFields, 1)

\* Deserializer::end: only whitespace may follow the value
End(b, r) ==
    IF ~r.ok THEN ParseErr
    ELSE IF SkipWs(b, r.pos) <= Len(b) THEN ParseErr
    ELSE r

\* deserialize_struct: an object or an array; i is at its first byte
StructAt(b, i) ==
    CASE Peek(b, i) = 123 -> VisitMap(b, i + 1)
      [] Peek(b, i) = 91 -> VisitSeq(b, i + 1)
      [] OTHER -> ParseErr

\* from_slice: one struct, then only whitespace
from_slice(b) == End(b, StructAt(b, SkipWs(b, 1)))

(***************************************************************************)
(* The Session codec                                                       *)
(***************************************************************************)
\* a Result: Ok(value), the Err carrying an HTTP status, or a panic
Ok(v) == [tag |-> "Ok", val |-> v, status |-> 200, msg |-> ""]
Err(status, msg) == [tag |-> "Err", val |-> <<>>, status |-> status, msg |-> msg]
Panic == [tag |-> "Panic", val |-> <<>>, status |-> 0, msg |-> "panic"]
IsOk(r) == r.tag = "Ok"

\* impl ToString for Session
to_string(s) == b64_encode(to_json(s))

\* a decoder that unwraps the result of from_slice instead of mapping its
\* error: the behaviour try_from must not have
FromSliceUnwrapped(r) == IF r.ok THEN Ok(r.val) ELSE Panic

\* serde_json::from_slice(&data).map_err(|err| ErrorUnauthorized(..))
FromSliceResult(r) == IF r.ok THEN Ok(r.val) ELSE Err(401, "serde_json error")

\* URL_SAFE.decode(value).map_err(|err| ErrorUnauthorized(..))?
FromDecoded(data) ==
    IF ~data.ok THEN Err(401, "base64 decode error") ELSE FromSliceResult(from_slice(data.bytes))

\* impl TryFrom<&str> for Session: both failures map to ErrorUnauthorized
try_from(value) == FromDecoded(b64_decode(value))

(***************************************************************************)
(* The inputs of the codec: Session values and cookie strings              *)
(***************************************************************************)
\* characters put in Session strings: a, the two characters JSON escapes
\* with a backslash, a newline, a control character written \u0001, and
\* characters of two, three and four UTF-8 bytes
SessionChars == {97, 34, 92, 10, 1, 233, 8364, 128512}

SessionStrings == SeqsUpTo(SessionChars, MaxStrLen)

FewStrings == {<<>>, <<97>>}
FewOptStrings == {None, Some(<<>>), Some(<<97>>)}
FewI64 == {I64(0), I64(0 - 1)}
ManyI64 == {I64(0), I64(7), I64(0 - 12), I64(1700000000), I64_MAX, I64_MIN}

BaseSession == Session(None, <<97>>, <<97>>, <<97>>, None, I64(0), I64(0))

\* every field takes two or three values independently of the others, and
\* each kind of field takes its many values in one field
CodecSessions ==
    {Session(rt, at, uid, em, pic, ein, ex) :
        rt \in FewOptStrings, at \in FewStrings, uid \in FewStrings, em \in FewStrings,
        pic \in FewOptStrings, ein \in FewI64, ex \in FewI64}
    \cup {[BaseSession EXCEPT !.access_token = s] : s \in SessionStrings}
    \cup {[BaseSession EXCEPT !.picture = Some(s)] : s \in SessionStrings}
    \cup {[BaseSession EXCEPT !.refresh_token = Some(s), !.email = s] : s \in SessionStrings}
    \cup {[BaseSession EXCEPT !.expires_in = n, !.expires = m] : n, m \in ManyI64}

\* the Sessions whose cookie strings are damaged
DamagedSessions ==
    {Session(rt, <<97>>, <<>>, <<97>>, None, I64(0), ex) :
        rt \in FewOptStrings, ex \in {I64(7), I64_MIN}}

\* bytes outside the URL-safe alphabet: ! + / . space and a non-ASCII byte
NotB64 == {33, 43, 47, 46, 32, 200}

\* s with its k-th element replaced by x
ReplaceAt(s, k, x) == [s EXCEPT ![k] = x]

\* s without its k-th element
RemoveAt(s, k) == SubSeq(s, 1, k - 1) \o SubSeq(s, k + 1, Len(s))

\* the positions of a string that are damaged: both ends and the middle
Positions(s) == {1, (Len(s) + 1) \div 2, Len(s)} \cap (1..Len(s))

\* texts that are not valid base64url, made from the cookie string c of a
\* Session: a byte outside the alphabet, a length that is no multiple of
\* four, padding that is not at the end, non-zero trailing bits
BadBase64(c) ==
    {ReplaceAt(c, k, x) : k \in Positions(c), x \in NotB64}
    \cup {SubSeq(c, 1, Len(c) - n) : n \in 1..3}
    \cup {c \o <<65>>, c \o <<B64Pad>>, <<B64Pad>> \o c}
    \cup {ReplaceAt(c, k, B64Pad) : k \in {1, (Len(c) + 1) \div 2}}
    \cup {<<65, 66, B64Pad, B64Pad>>, <<65, 65, 66, B64Pad>>, <<65>>}

\* values of the wrong type for a field of the given type
WrongType(type) ==
    IF type = "i64"
    THEN {JsonString(<<55>>), JsonNull, JsonTrue, Str(<<"1", ".", "5">>),
          Str(<<"1", "e", "2">>), Str(<<"-", "0">>), Str(<<"0", "1">>), Str(<<"-">>),
          Str(<<"9","2","2","3","3","7","2","0","3","6","8","5","4","7","7","5","8","0","8">>),
          Str(<<"[", "]">>)}
    ELSE {Str(<<"7">>), JsonTrue, Str(<<"{", "}">>), Str(<<"[", "]">>),
          <<34, 97>>, <<34, 92, 120, 34>>, <<34, 10, 34>>, <<34, 200, 34>>,
          <<34, 92, 117, 100, 56, 48, 48, 34>>}
         \cup (IF type = "string" THEN {JsonNull} ELSE {})

\* JSON texts that do not match the Session schema, made from the members
\* of a Session: a required field missing, renamed or of the wrong type, a
\* field given twice, a text cut short or followed by more, a text that is
\* no object or array of the right shape
BadJson(s) ==
    LET m == SessionMembers(s)
        t == to_json(s)
        F == 1..Len(SessionFields)
    IN  {JsonObject(RemoveAt(m, k)) : k \in {n \in F : SessionFields[n].type # "opt_string"}}
        \cup UNION {{JsonObject(ReplaceAt(m, k, [m[k] EXCEPT !.val = w])) :
                        w \in WrongType(SessionFields[k].type)} : k \in F}
        \cup {JsonObject(ReplaceAt(m, k, [m[k] EXCEPT !.key = JsonString(Append(SessionFields[k].key, 120))])) :
                k \in {n \in F : SessionFields[n].type # "opt_string"}}
        \cup {JsonObject(Append(m, m[k])) : k \in F}
        \cup {SubSeq(t, 1, n) : n \in {0, 1, Len(t) \div 2, Len(t) - 1}}
        \cup {t \o <<x>> : x \in {125, 44, 48, 0}}
        \cup {<<239, 187, 191>> \o t}
        \cup {JsonNull, Str(<<"4", "2">>), JsonString(K_email), Str(<<"{", "}">>),
              Str(<<"[", "]">>), Str(<<"[", "1", "]">>)}
        \cup {<<91>> \o Flatten([k \in 1..n |-> (IF k = 1 THEN <<>> ELSE <<44>>) \o m[k].val])
              \o <<93>> : n \in 1..(Len(m) - 1)}
        \cup {<<91>> \o Flatten([k \in F |-> (IF k = 1 THEN <<>> ELSE <<44>>) \o m[k].val])
              \o x \o <<93>> : x \in {<<44>>, <<44, 49>>}}
        \cup {SubSeq(t, 1, Len(t) - 1) \o <<44, 125>>}

\* JSON texts that differ from what to_json writes and still match the
\* schema: whitespace, members in another order, an unknown member, an
\* Option member left out, escaped key and value characters, an array
GoodJson(s) ==
    LET m == SessionMembers(s)
        F == 1..Len(SessionFields)
        rev == [k \in F |-> m[Len(m) + 1 - k]]
        unknown == [key |-> JsonString(Str(<<"x">>)),
                    val |-> Str(<<"{","\"","a","\"",":","[","1",".","5","e","-","3",","," ",
                                  "t","r","u","e",",","\"","\\","n","\"","]","}">>)]
    IN  {<<32, 10>> \o to_json(s) \o <<9, 13>>,
         JsonObject(rev),
         JsonObject(<<unknown>> \o m),
         JsonObject(Append(m, unknown)),
         <<91>> \o Flatten([k \in F |-> (IF k = 1 THEN <<32>> ELSE <<32, 44, 10>>) \o m[k].val])
               \o <<32, 93>>}
        \cup {JsonObject(RemoveAt(m, k)) :
                k \in {n \in F : SessionFields[n].type = "opt_string"
                                 /\ s[SessionFields[n].name] = None}}
        \cup {JsonObject(ReplaceAt(m, 4, [m[4] EXCEPT
                !.key = <<34>> \o Str(<<"e","m">>) \o <<92, 117, 48, 48, 54, 49>>
                        \o Str(<<"i","l">>) \o <<34>>]))}

(***************************************************************************)
(* SpecCodec: to_string and try_from applied to the inputs above           *)
(***************************************************************************)
Cookie(kind, text) == [kind |-> kind, text |-> text]

\* session.to_string(), as post_login and post_login_token put it in the cookie
CodecEncode ==
    /\ codec_in # None /\ codec_str = None
    /\ codec_str' = Some(Cookie("encoded", to_string(Unwrap(codec_in))))
    /\ UNCHANGED <<TEMPLATE_DATA, STATIC_FILES, req, resp, calls, codec_in, codec_out, routed, boot>>

\* a client sends the cookie string back damaged
CodecDamage ==
    /\ codec_in # None /\ Unwrap(codec_in) \in DamagedSessions
    /\ codec_str # None /\ Unwrap(codec_str).kind = "encoded" /\ codec_out = None
    /\ \E t \in BadBase64(Unwrap(codec_str).text) :
          codec_str' = Some(Cookie("bad_base64", t))
    /\ UNCHANGED <<TEMPLATE_DATA, STATIC_FILES, req, resp, calls, codec_in, codec_out, routed, boot>>

\* a client sends well-formed base64url of a text that is no Session
CodecForgeBad ==
    /\ codec_in # None /\ Unwrap(codec_in) \in DamagedSessions /\ codec_str = None
    /\ \E j \in BadJson(Unwrap(codec_in)) :
          codec_str' = Some(Cookie("bad_json", b64_encode(j)))
    /\ UNCHANGED <<TEMPLATE_DATA, STATIC_FILES, req, resp, calls, codec_in, codec_out, routed, boot>>

\* a client sends base64url of another JSON text of the same Session
CodecForgeGood ==
    /\ codec_in # None /\ Unwrap(codec_in) \in DamagedSessions /\ codec_str = None
    /\ \E j \in GoodJson(Unwrap(codec_in)) :
          codec_str' = Some(Cookie("good_json", b64_encode(j)))
    /\ UNCHANGED <<TEMPLATE_DATA, STATIC_FILES, req, resp, calls, codec_in, codec_out, routed, boot>>

\* Session::try_from(cookie.value())
CodecDecode ==
    /\ codec_str # None /\ codec_out = None
    /\ codec_out' = Some(try_from(Unwrap(codec_str).text))
    /\ UNCHANGED <<TEMPLATE_DATA, STATIC_FILES, req, resp, calls, codec_in, codec_str, routed, boot>>

NextCodec ==
    \/ CodecEncode
    \/ CodecDamage
    \/ CodecForgeBad
    \/ CodecForgeGood
    \/ CodecDecode

(***************************************************************************)
(* The gateway.  Constants of ui.rs (ui.rs:25-33)                          *)
(***************************************************************************)
DEFAULT_INDEX == "/"
SESSION_ID == "opengpt_session"
BUILD_ID == "XmKrBoPpskgF_4RiIX1jm"
TEMP_404 == "404.htm"
TEMP_AUTH == "auth.htm"
TEMP_CHAT == "chat.htm"
TEMP_DETAIL == "detail.htm"
TEMP_LOGIN == "login.htm"
TEMP_SHARE == "share.htm"

\* the templates config() registers
TEMPLATE == {TEMP_404, TEMP_AUTH, TEMP_LOGIN, TEMP_CHAT, TEMP_DETAIL, TEMP_SHARE}

\* crate::URL_CHATGPT_API, the upstream origin used when no prefix is set
URL_CHATGPT_API == "URL_CHATGPT_API"

\* the literal that ui.rs:446, 538 and 603 remove from the share link
CHAT_ORIGIN ==
    Str(<<"h","t","t","p","s",":","/","/","c","h","a","t",".",
          "o","p","e","n","a","i",".","c","o","m">>)

(***************************************************************************)
(* str::contains, str::starts_with, str::replace                           *)
(***************************************************************************)
\* needle occurs in hay at position i
MatchAt(hay, needle, i) ==
    /\ i >= 1
    /\ i + Len(needle) - 1 <= Len(hay)
    /\ \A k \in 1..Len(needle) : hay[i + k - 1] = needle[k]

contains(hay, needle) == \E i \in 1..(Len(hay) + 1) : MatchAt(hay, needle, i)

starts_with(s, prefix) == MatchAt(s, prefix, 1)

\* the positions from i on where from occurs in s
MatchesFrom(s, from, i) == {j \in i..(Len(s) + 1) : MatchAt(s, from, j)}

\* the least element of a non-empty set of positions
Least(S) == CHOOSE j \in S : \A k \in S : j <= k

\* str::replace from position i on: every match is replaced, left to right,
\* the search going on after the end of the match (from is not empty)
RECURSIVE ReplaceFrom(_, _, _, _)
ReplaceFrom(s, from, to, i) ==
    IF MatchesFrom(s, from, i) = {} THEN SubSeq(s, i, Len(s))
    ELSE SubSeq(s, i, Least(MatchesFrom(s, from, i)) - 1) \o to
         \o ReplaceFrom(s, from, to, Least(MatchesFrom(s, from, i)) + Len(from))

replace(s, from, to) == ReplaceFrom(s, from, to, 1)

(***************************************************************************)
(* TemplateData (ui.rs:92-109) and the asset map (ui.rs:37)                *)
(***************************************************************************)
\* super::Launcher, as far as TemplateData reads it
Launchers ==
    [api_prefix : {None, Some("https://proxy.example")},
     cf_site_key : {None, Some("site-key")},
     cf_secret_key : {None, Some("secret-key")}]

\* impl From<Launcher> for TemplateData: the prefix is always Some
TemplateDataFrom(value) ==
    [api_prefix |-> Some(IF IsSome(value.api_prefix)
                         THEN Unwrap(value.api_prefix) ELSE ""),
     cf_site_key |-> value.cf_site_key,
     cf_secret_key |-> value.cf_secret_key]

\* fn get_url
get_url(data) ==
    IF IsSome(data.api_prefix) THEN Unwrap(data.api_prefix) ELSE URL_CHATGPT_API

\* the characters of asset keys and of requested paths
PathChars == {CodeOf["a"], CodeOf["b"]}

\* the keys generate() may register
AssetKeys == {Str(<<"a">>), Str(<<"a", "b">>), Str(<<"b">>)}

\* static_files::Resource of a key: its bytes and its mime type
Resource(key) ==
    [data |-> <<"bytes of">> \o key,
     mime_type |-> IF Len(key) = 1 THEN "text/css" ELSE "text/javascript"]

\* the asset maps: any set of keys, each with its own resource
AssetMaps == {[k \in K |-> Resource(k)] : K \in SUBSET AssetKeys}

\* the paths asked of the static resolver, the empty one included
RequestPaths == SeqsUpTo(PathChars, MaxPathLen)

(***************************************************************************)
(* Responses                                                               *)
(***************************************************************************)
\* the user object built from a session (ui.rs:311-318 and alike)
NoUser == [present |-> FALSE, id |-> <<>>, name |-> <<>>, email |-> <<>>,
           image |-> None, picture |-> None]

User(session) ==
    [present |-> TRUE, id |-> session.user_id, name |-> session.email,
     email |-> session.email, image |-> session.picture,
     picture |-> session.picture]

\* a serde_json::Value read from upstream, as far as the handlers look at
\* it: whether it is an object, whether that object is an error report,
\* and its member continue_conversation_url (absent, a string, or other)
NoShareData == [kind |-> "none", is_error |-> FALSE, url_kind |-> "absent", url |-> <<>>]

ShareObject(is_error, url_kind, url) ==
    [kind |-> "object", is_error |-> is_error, url_kind |-> url_kind, url |-> url]

ShareArray == [kind |-> "array", is_error |-> FALSE, url_kind |-> "absent", url |-> <<>>]

\* a JSON document the gateway writes; kind names its shape, the other
\* fields hold the values the shapes differ in
NoJson ==
    [kind |-> "none", redirect |-> <<>>, redirect_status |-> 0, n_ssp |-> FALSE,
     user |-> NoUser, chat_page_user |-> NoUser, share_id |-> "",
     share_data |-> NoShareData, continue_mode |-> FALSE, page |-> "",
     query |-> {}, build_id |-> "", gssp |-> FALSE, gip |-> "absent",
     next_export |-> FALSE, status_code |-> 0, expires |-> <<>>,
     access_token |-> <<>>]

\* {"pageProps":{"__N_REDIRECT":target,"__N_REDIRECT_STATUS":307},"__N_SSP":true}
SoftRedirect(target) ==
    [NoJson EXCEPT !.kind = "soft_redirect", !.redirect = target,
                   !.redirect_status = 307, !.n_ssp = TRUE]

\* {"pageProps":{"user":...,...},"__N_SSP":true}  (ui.rs:392-412)
ChatProps(session) ==
    [NoJson EXCEPT !.kind = "chat_props", !.user = User(session), !.n_ssp = TRUE]

\* the full-page envelope around ChatProps  (ui.rs:344-372)
ChatEnvelope(session, page, query) ==
    [NoJson EXCEPT !.kind = "chat_envelope", !.user = User(session), !.n_ssp = TRUE,
                   !.page = page, !.query = query, !.build_id = BUILD_ID,
                   !.gssp = TRUE]

\* {"pageProps":{"sharedConversationId":..,"serverResponse":{"type":"data",
\*  "data":..},"continueMode":false,..},"__N_SSP":true}  (ui.rs:544-556)
ShareProps(share_id, share_data) ==
    [NoJson EXCEPT !.kind = "share_props", !.share_id = share_id,
                   !.share_data = share_data, !.n_ssp = TRUE]

\* the full-page envelope around ShareProps  (ui.rs:455-478)
ShareEnvelope(share_id, share_data) ==
    [NoJson EXCEPT !.kind = "share_envelope", !.share_id = share_id,
                   !.share_data = share_data, !.n_ssp = TRUE,
                   !.page = "/share/[[...shareParams]]",
                   !.query = {<<"shareParams", share_id>>},
                   !.build_id = BUILD_ID, !.gssp = TRUE]

\* the continue-mode page properties  (ui.rs:608-653)
ContinueProps(session, share_id, share_data) ==
    [NoJson EXCEPT !.kind = "continue_props", !.user = User(session),
                   !.chat_page_user = User(session), !.share_id = share_id,
                   !.share_data = share_data, !.continue_mode = TRUE,
                   !.n_ssp = TRUE]

\* {"notFound": true}
NotFoundJson == [NoJson EXCEPT !.kind = "not_found"]

\* the envelope of the 404 page  (ui.rs:485-496, 684-697)
ErrorEnvelope(gip) ==
    [NoJson EXCEPT !.kind = "error_envelope", !.status_code = 404,
                   !.page = "/_error", !.build_id = BUILD_ID,
                   !.next_export = TRUE, !.gip = gip]

\* the body of GET /auth/session  (ui.rs:310-322)
SessionInfo(session) ==
    [NoJson EXCEPT !.kind = "session_info", !.user = User(session),
                   !.expires = session.expires,
                   !.access_token = session.access_token]

\* tera::Context: the values the handlers insert
NoCtx == [props |-> NoJson, error |-> None, username |-> None,
          site_key |-> None, api_prefix |-> None]

\* a response body: nothing, a JSON document, a rendered template with its
\* context, the bytes of an asset, an error text, or what upstream sent
EmptyBody == [kind |-> "empty", json |-> NoJson, template |-> "", ctx |-> NoCtx,
              data |-> <<>>, text |-> ""]

\* an HTTP response; raised: it is the rendering of an Err the handler
\* returned; a panic of the handler has status 0 and kind "panic"
Response(status) ==
    [status |-> status, location |-> <<>>, set_cookie |-> None,
     content_type |-> "", headers |-> {}, body |-> EmptyBody, raised |-> FALSE]

\* HttpResponse::Xxx().json(value)
JsonResponse(status, json) ==
    [Response(status) EXCEPT !.content_type = "application/json",
                             !.body = [EmptyBody EXCEPT !.kind = "json", !.json = json]]

\* an Err(error::ErrorXxx(text)) returned by a handler, as actix answers it
Raise(status, text) ==
    [Response(status) EXCEPT !.raised = TRUE,
                             !.body = [EmptyBody EXCEPT !.kind = "text", !.text = text]]

\* a handler that panicked: no response is written
PanicResponse ==
    [Response(0) EXCEPT !.body = [EmptyBody EXCEPT !.kind = "panic"]]

\* what a handler did: its response and the outbound calls it made, in order
Reply(response, cs) == [resp |-> response, calls |-> cs]

\* an outbound call: the endpoint, the pieces of its URL, the token it carries
Call(endpoint, url, token) == [endpoint |-> endpoint, url |-> url, token |-> token]

\* the session cookie set on login  (ui.rs:213-219, 264-270)
SessionCookie(session) ==
    [name |-> SESSION_ID, value |-> to_string(session), path |-> DEFAULT_INDEX,
     max_age |-> Some(session.expires_in), expires |-> "", same_site |-> "Lax",
     secure |-> FALSE, http_only |-> FALSE]

\* the cookie that clears the session  (ui.rs:290-296)
ClearedCookie ==
    [name |-> SESSION_ID, value |-> <<>>, path |-> DEFAULT_INDEX,
     max_age |-> None, expires |-> "now", same_site |-> "Lax",
     secure |-> FALSE, http_only |-> FALSE]

(***************************************************************************)
(* Helpers of the handlers (ui.rs:706-747, 792-798)                        *)
(***************************************************************************)
\* fn redirect_login
redirect_login == [Response(302) EXCEPT !.location = <<"/auth/login">>]

\* fn render_template: tera fails for a name that is not registered; the
\* six registered templates render with every context the handlers build
render_template(name, ctx) ==
    IF name \in TEMPLATE
    THEN [Response(200) EXCEPT
            !.content_type = "text/html; charset=utf-8",
            !.body = [EmptyBody EXCEPT !.kind = "html", !.template = name, !.ctx = ctx]]
    ELSE Raise(500, "template not found")

\* fn settings_template_data
settings_template_data(ctx, data) ==
    [ctx EXCEPT !.site_key = IF IsSome(data.cf_site_key) THEN data.cf_site_key ELSE @,
                !.api_prefix = IF IsSome(data.api_prefix) THEN data.api_prefix ELSE @]

\* the answers of crate::token::check: Ok(Some(profile)), Ok(None), Err
TokenChecked(kind, profile) == [kind |-> kind, profile |-> profile]

\* fn check_token: only an Err of token::check is a failure
check_token(token, tc) ==
    IF tc.kind = "err" THEN Err(401, "token error") ELSE Ok(<<>>)

\* the and_then of extract_session, applied to the result of try_from
CheckedSession(r, tc) ==
    CASE ~IsOk(r) -> Err(401, "invalid session")
      [] IsOk(r) /\ ~IsOk(check_token(r.val.access_token, tc)) ->
            check_token(r.val.access_token, tc)
      [] OTHER -> r

\* fn extract_session
extract_session(cookie_value, tc) == CheckedSession(try_from(cookie_value), tc)

\* an Err a handler returns with `?`, as the client sees it
Raised(r) == Raise(r.status, r.msg)

(***************************************************************************)
(* GET /auth, GET /auth/login  (ui.rs:181-193)                             *)
(***************************************************************************)
get_auth(data) ==
    Reply(render_template(TEMP_AUTH, settings_template_data(NoCtx, data)), <<>>)

get_login(data) ==
    Reply(render_template(TEMP_LOGIN,
            settings_template_data([NoCtx EXCEPT !.error = Some(""),
                                                 !.username = Some("")], data)),
          <<>>)

(***************************************************************************)
(* POST /auth/login  (ui.rs:195-231, 749-781)                              *)
(***************************************************************************)
SITEVERIFY == "https://challenges.cloudflare.com/turnstile/v0/siteverify"

\* the result of cf_captcha_check and the calls it made
Checked(result, cs) == [result |-> result, calls |-> cs]

\* CfCaptchaForm, posted to the verification endpoint
CfCaptchaForm(data, cf_response, peer) ==
    [secret |-> Unwrap(data.cf_secret_key), response |-> cf_response,
     remoteip |-> Unwrap(peer)]

\* a check that looks at the site key only and posts the form before it
\* looks at the token: the behaviour cf_captcha_check must not have
cf_captcha_check_eager(data, cf_response, peer, captcha) ==
    CASE ~IsSome(data.cf_site_key) -> Checked(Ok(<<>>), <<>>)
      [] IsSome(data.cf_site_key) /\ captcha = "ok" /\ cf_response # None
            /\ cf_response # Some("") ->
            Checked(Ok(<<>>), <<Call("siteverify", <<SITEVERIFY>>, cf_response)>>)
      [] OTHER ->
            Checked(Err(401, "captcha rejected"),
                    <<Call("siteverify", <<SITEVERIFY>>, cf_response)>>)

\* async fn cf_captcha_check; peer: conn.peer_addr(), captcha: how the
\* verification call ends ("ok", "send_err", "http_err")
cf_captcha_check(data, cf_response, peer, captcha) ==
    CASE ~(IsSome(data.cf_site_key) /\ IsSome(data.cf_secret_key)) ->
            Checked(Ok(<<>>), <<>>)
      [] IsSome(data.cf_site_key) /\ IsSome(data.cf_secret_key)
            /\ (cf_response = None \/ cf_response = Some("")) ->
            Checked(Err(400, "Missing cf_captcha_response"), <<>>)
      [] IsSome(data.cf_site_key) /\ IsSome(data.cf_secret_key)
            /\ cf_response # None /\ cf_response # Some("") /\ peer = None ->
            Checked(Panic, <<>>)
      [] IsSome(data.cf_site_key) /\ IsSome(data.cf_secret_key)
            /\ cf_response # None /\ cf_response # Some("") /\ peer # None
            /\ captcha = "send_err" ->
            Checked(Err(500, "siteverify request failed"),
                    <<Call("siteverify", <<SITEVERIFY>>,
                           CfCaptchaForm(data, Unwrap(cf_response), peer))>>)
      [] IsSome(data.cf_site_key) /\ IsSome(data.cf_secret_key)
            /\ cf_response # None /\ cf_response # Some("") /\ peer # None
            /\ captcha = "http_err" ->
            Checked(Err(401, "siteverify status error"),
                    <<Call("siteverify", <<SITEVERIFY>>,
                           CfCaptchaForm(data, Unwrap(cf_response), peer))>>)
      [] OTHER ->
            Checked(Ok(<<>>),
                    <<Call("siteverify", <<SITEVERIFY>>,
                           CfCaptchaForm(data, Unwrap(cf_response), peer))>>)

\* impl From<AuthenticateToken> for Session: the picture is always Some
SessionFrom(value) ==
    Session(value.refresh_token, value.access_token, value.user_id, value.email,
            Some(value.picture), value.expires_in, value.expires)

\* the login form rendered again with the user name and the error text
LoginError(username, text) ==
    render_template(TEMP_LOGIN, [NoCtx EXCEPT !.username = Some(username),
                                              !.error = Some(text)])

\* 303 to the index with the session cookie
LoginRedirect(session) ==
    [Response(303) EXCEPT !.location = <<DEFAULT_INDEX>>,
                          !.set_cookie = Some(SessionCookie(session))]

\* a login that goes on to the credential exchange whatever the captcha
\* check returned: the behaviour post_login must not have
AfterCaptcha_unchecked(check, account, exchange) ==
    CASE exchange.kind = "err" ->
            Reply(LoginError(account.username, "access token error"),
                  Append(check.calls, Call("do_access_token", <<"auth">>, account.username)))
      [] exchange.kind = "inconvertible" ->
            Reply(Raise(500, "AuthenticateToken error"),
                  Append(check.calls, Call("do_access_token", <<"auth">>, account.username)))
      [] OTHER ->
            Reply(LoginRedirect(SessionFrom(exchange.token)),
                  Append(check.calls, Call("do_access_token", <<"auth">>, account.username)))

\* post_login after the captcha check; exchange: how do_access_token ends
\* ("err"), and whether its token converts to an AuthenticateToken
AfterCaptcha(check, account, exchange) ==
    CASE check.result.tag = "Panic" -> Reply(PanicResponse, check.calls)
      [] check.result.tag = "Err" ->
            Reply(LoginError(account.username, check.result.msg), check.calls)
      [] check.result.tag = "Ok" /\ exchange.kind = "err" ->
            Reply(LoginError(account.username, "access token error"),
                  Append(check.calls, Call("do_access_token", <<"auth">>, account.username)))
      [] check.result.tag = "Ok" /\ exchange.kind = "inconvertible" ->
            Reply(Raise(500, "AuthenticateToken error"),
                  Append(check.calls, Call("do_access_token", <<"auth">>, account.username)))
      [] OTHER ->
            Reply(LoginRedirect(SessionFrom(exchange.token)),
                  Append(check.calls, Call("do_access_token", <<"auth">>, account.username)))

\* async fn post_login
post_login(data, account, peer, captcha, exchange) ==
    AfterCaptcha(cf_captcha_check(data, account.cf_turnstile_response, peer, captcha),
                 account, exchange)

(***************************************************************************)
(* POST /auth/login/token  (ui.rs:233-275)                                 *)
(***************************************************************************)
\* the Session built from the profile; picture: Ok(picture) gives the
\* Option it holds, Err gives None
TokenSession(access_token, profile, picture) ==
    Session(None, access_token, profile.user_id, profile.email,
            IF picture.kind = "ok" THEN picture.picture ELSE None,
            profile.expires_in, profile.expires)

\* 200 with a Location header and the session cookie
TokenLoginResponse(session) ==
    [Response(200) EXCEPT !.location = <<DEFAULT_INDEX>>,
                          !.set_cookie = Some(SessionCookie(session))]

\* async fn post_login_token
post_login_token(authorization, tc, picture) ==
    CASE authorization = None -> Reply(redirect_login, <<>>)
      [] authorization # None /\ tc.kind = "err" -> Reply(Raise(401, "token error"), <<>>)
      [] authorization # None /\ tc.kind = "none" ->
            Reply(Raise(500, "Get Profile Erorr"), <<>>)
      [] OTHER ->
            Reply(TokenLoginResponse(TokenSession(Unwrap(authorization), tc.profile, picture)),
                  <<Call("do_get_user_picture", <<"auth">>, Unwrap(authorization))>>)

(***************************************************************************)
(* GET /auth/logout  (ui.rs:277-300)                                       *)
(***************************************************************************)
\* 303 to the login page with the cookie that clears the session
LogoutResponse ==
    [Response(303) EXCEPT !.location = <<"/auth/login">>,
                          !.set_cookie = Some(ClearedCookie)]

\* the revocation call made for a decoded cookie that holds a refresh token
RevokeOf(r) ==
    IF IsOk(r) /\ IsSome(r.val.refresh_token)
    THEN <<Call("do_revoke_token", <<"auth">>, Unwrap(r.val.refresh_token))>>
    ELSE <<>>

RevokeCalls(cookie) ==
    IF cookie = None THEN <<>> ELSE RevokeOf(try_from(Unwrap(cookie)))

\* a logout that returns the failure of the revocation with `?`: the
\* behaviour get_logout must not have
get_logout_strict(cookie, revoke) ==
    IF RevokeCalls(cookie) # <<>> /\ revoke = "err"
    THEN Reply(Raise(500, "revoke error"), RevokeCalls(cookie))
    ELSE Reply(LogoutResponse, RevokeCalls(cookie))

\* async fn get_logout; revoke: how do_revoke_token ends, which the
\* handler drops with `let _ =`
get_logout(cookie, revoke) == Reply(LogoutResponse, RevokeCalls(cookie))

(***************************************************************************)
(* GET /auth/session  (ui.rs:302-327)                                      *)
(***************************************************************************)
\* NaiveDateTime::from_timestamp_opt(secs, 0): None outside the range of
\* chrono's dates, which ends before 10^13 seconds either side of 1970
\* and holds every count of at most twelve digits
from_timestamp_opt(secs) ==
    IF Len(secs.mag) <= 12 THEN Some(secs) ELSE None

SessionPage(r) ==
    CASE ~IsOk(r) -> Reply(Raised(r), <<>>)
      [] IsOk(r) /\ from_timestamp_opt(r.val.expires) = None -> Reply(PanicResponse, <<>>)
      [] OTHER -> Reply(JsonResponse(200, SessionInfo(r.val)), <<>>)

\* async fn get_session
get_session(cookie, tc) ==
    IF cookie = None THEN Reply(redirect_login, <<>>)
    ELSE SessionPage(extract_session(Unwrap(cookie), tc))

(***************************************************************************)
(* GET /, /c, /c/{conversation_id}  (ui.rs:329-386)                        *)
(***************************************************************************)
\* HashMap::insert on the query parameters, a set of <<key, value>>
Insert(query, k, v) == {kv \in query : kv[1] # k} \cup {<<k, v>>}

ChatPage(r, conversation_id, query, data) ==
    CASE ~IsOk(r) -> Reply(redirect_login, <<>>)
      [] IsOk(r) /\ conversation_id # None ->
            Reply(render_template(TEMP_DETAIL,
                    settings_template_data(
                        [NoCtx EXCEPT !.props =
                            ChatEnvelope(r.val, "/c/[chatId]",
                                         Insert(query, "chatId", Unwrap(conversation_id)))],
                        data)),
                  <<>>)
      [] OTHER ->
            Reply(render_template(TEMP_CHAT,
                    settings_template_data(
                        [NoCtx EXCEPT !.props = ChatEnvelope(r.val, DEFAULT_INDEX, query)],
                        data)),
                  <<>>)

\* a chat page that is rendered for whatever the cookie holds: the
\* behaviour get_chat must not have
get_chat_open(cookie, tc, conversation_id, query, data) ==
    IF cookie = None THEN Reply(redirect_login, <<>>)
    ELSE ChatPage(Ok(BaseSession), conversation_id, query, data)

\* async fn get_chat
get_chat(cookie, tc, conversation_id, query, data) ==
    IF cookie = None THEN Reply(redirect_login, <<>>)
    ELSE ChatPage(extract_session(Unwrap(cookie), tc), conversation_id, query, data)

(***************************************************************************)
(* GET /_next/data/{BUILD_ID}/index.json, /c/{id}.json  (ui.rs:388-425)    *)
(***************************************************************************)
ChatInfo(r) ==
    IF IsOk(r) THEN Reply(JsonResponse(200, ChatProps(r.val)), <<>>)
    ELSE Reply(JsonResponse(200, SoftRedirect(<<"/auth/login?">>)), <<>>)

\* async fn get_chat_info
get_chat_info(cookie, tc) ==
    IF cookie = None THEN Reply(redirect_login, <<>>)
    ELSE ChatInfo(extract_session(Unwrap(cookie), tc))

(***************************************************************************)
(* The share routes  (ui.rs:427-674)                                       *)
(***************************************************************************)
\* what the upstream share endpoint does with the request: send fails, or
\* it answers with a status and a body that is JSON (value) or not
Upstream(send, status, parsed, value) ==
    [send |-> send, status |-> status, parsed |-> parsed, value |-> value]

\* reqwest builds no request from a URL without a scheme: with the empty
\* prefix of TemplateDataFrom the URL is relative and send() is an Err
CanSend(url) == url # ""

\* the GET of lines 433-436, 525-528, 591-594
FetchShare(url, share_id, session) ==
    Call("share", <<url, "/backend-api/share/", share_id>>, session.access_token)

\* lines 442-453, 534-542, 599-607: the member is replaced when it is a string
Rewritten(share_data) ==
    IF share_data.kind = "object" /\ share_data.url_kind = "string"
    THEN [share_data EXCEPT !.url = replace(@, CHAT_ORIGIN, <<>>)]
    ELSE share_data

\* 302 to the login page that returns to the share
ShareLoginRedirect(share_id) ==
    [Response(302) EXCEPT !.location = <<"/auth/login?next=%2Fshare%2F", share_id>>]

\* the 404 page of lines 485-501
Share404(data) ==
    render_template(TEMP_404,
        settings_template_data([NoCtx EXCEPT !.props = ErrorEnvelope("true")], data))

\* a share page that sends the upstream request again when it failed: the
\* behaviour get_share_chat must not have
SharePage_retry(r, share_id, upstream, data) ==
    CASE ~IsOk(r) -> Reply(ShareLoginRedirect(share_id), <<>>)
      [] IsOk(r) /\ upstream.send = "err" ->
            Reply(Raise(500, "upstream error text"),
                  <<FetchShare(get_url(data), share_id, r.val),
                    FetchShare(get_url(data), share_id, r.val)>>)
      [] IsOk(r) /\ upstream.send # "err" /\ ~upstream.parsed ->
            Reply(Share404(data), <<FetchShare(get_url(data), share_id, r.val)>>)
      [] OTHER ->
            Reply(render_template(TEMP_SHARE,
                    settings_template_data(
                        [NoCtx EXCEPT !.props =
                            ShareEnvelope(share_id, Rewritten(upstream.value))],
                        data)),
                  <<FetchShare(get_url(data), share_id, r.val)>>)

SharePage(r, share_id, upstream, data) ==
    CASE ~IsOk(r) -> Reply(ShareLoginRedirect(share_id), <<>>)
      [] IsOk(r) /\ upstream.send = "err" ->
            Reply(Raise(500, "upstream error text"),
                  <<FetchShare(get_url(data), share_id, r.val)>>)
      [] IsOk(r) /\ upstream.send # "err" /\ ~upstream.parsed ->
            Reply(Share404(data), <<FetchShare(get_url(data), share_id, r.val)>>)
      [] OTHER ->
            Reply(render_template(TEMP_SHARE,
                    settings_template_data(
                        [NoCtx EXCEPT !.props =
                            ShareEnvelope(share_id, Rewritten(upstream.value))],
                        data)),
                  <<FetchShare(get_url(data), share_id, r.val)>>)

\* async fn get_share_chat
get_share_chat(cookie, tc, share_id, upstream, data) ==
    IF cookie = None THEN Reply(redirect_login, <<>>)
    ELSE SharePage(extract_session(Unwrap(cookie), tc), share_id, upstream, data)

ShareInfo(r, share_id, upstream, data) ==
    CASE ~IsOk(r) -> Reply(ShareLoginRedirect(share_id), <<>>)
      [] IsOk(r) /\ upstream.send = "err" ->
            Reply(Raise(500, "upstream error text"),
                  <<FetchShare(get_url(data), share_id, r.val)>>)
      [] IsOk(r) /\ upstream.send # "err" /\ ~upstream.parsed ->
            Reply(JsonResponse(200, NotFoundJson),
                  <<FetchShare(get_url(data), share_id, r.val)>>)
      [] OTHER ->
            Reply(JsonResponse(200, ShareProps(share_id, Rewritten(upstream.value))),
                  <<FetchShare(get_url(data), share_id, r.val)>>)

\* async fn get_share_chat_info
get_share_chat_info(cookie, tc, share_id, upstream, data) ==
    IF cookie = None THEN Reply(redirect_login, <<>>)
    ELSE ShareInfo(extract_session(Unwrap(cookie), tc), share_id, upstream, data)

\* async fn get_share_chat_continue
get_share_chat_continue(share_id) ==
    Reply([Response(308) EXCEPT !.location = <<"/share/", share_id>>], <<>>)

ContinueInfo(r, share_id, upstream, data) ==
    CASE ~IsOk(r) ->
            Reply(JsonResponse(307,
                    SoftRedirect(<<"/auth/login?next=%2Fshare%2F", share_id, "%2Fcontinue">>)),
                  <<>>)
      [] IsOk(r) /\ upstream.send = "err" ->
            Reply(Raise(500, "upstream error text"),
                  <<FetchShare(get_url(data), share_id, r.val)>>)
      [] IsOk(r) /\ upstream.send # "err" /\ ~upstream.parsed ->
            Reply([JsonResponse(200, NotFoundJson) EXCEPT
                        !.headers = {<<"referrer-policy", "same-origin">>}],
                  <<FetchShare(get_url(data), share_id, r.val)>>)
      [] OTHER ->
            Reply(JsonResponse(200,
                    ContinueProps(r.val, share_id, Rewritten(upstream.value))),
                  <<FetchShare(get_url(data), share_id, r.val)>>)

\* async fn get_share_chat_continue_info
get_share_chat_continue_info(cookie, tc, share_id, upstream, data) ==
    IF cookie = None THEN Reply(redirect_login, <<>>)
    ELSE ContinueInfo(extract_session(Unwrap(cookie), tc), share_id, upstream, data)

(***************************************************************************)
(* The redirect services /chat and /chat/{conversation_id}  (ui.rs:139-140)*)
(***************************************************************************)
\* web::redirect(from, to): 307 Temporary Redirect to the fixed target to,
\* whatever the path captured
redirect(to) == Reply([Response(307) EXCEPT !.location = <<to>>], <<>>)

(***************************************************************************)
(* GET /_next/image, the 404 page, static resources  (ui.rs:676-704,       *)
(* 783-790)                                                                *)
(***************************************************************************)
\* async fn get_image; converted: the status super::response_convert gives
\* its answer, whatever the fetch did
get_image(params, converted) ==
    IF params = None THEN Reply(Raise(400, "Missing URL parameter"), <<>>)
    ELSE Reply([Response(converted) EXCEPT !.body = [EmptyBody EXCEPT !.kind = "converted"]],
               <<Call("image", <<Unwrap(params).url>>, "")>>)

\* async fn get_error_404: no settings_template_data here
get_error_404 ==
    Reply(render_template(TEMP_404, [NoCtx EXCEPT !.props = ErrorEnvelope("false")]), <<>>)

\* HttpResponse::Ok().content_type(v.mime_type).body(v.data)
StaticOk(v) ==
    [Response(200) EXCEPT !.content_type = v.mime_type,
                          !.body = [EmptyBody EXCEPT !.kind = "bytes", !.data = v.data]]

\* the keys find() may stop at: HashMap::iter() visits the keys in an
\* order the program does not choose, and find() takes the first match
Found(files, path) == {k \in DOMAIN files : contains(k, path)}

\* async fn get_static_resource: the responses it may give
get_static_resource(files, path) ==
    IF Found(files, path) = {} THEN {Response(404)}
    ELSE {StaticOk(files[k]) : k \in Found(files, path)}

(***************************************************************************)
(* The requests and the answers of the environment                         *)
(***************************************************************************)
\* a session as post_login grants it, with refresh token and picture
AliceSession ==
    Session(Some(Str(<<"r", "t">>)), Str(<<"a", "t">>), Str(<<"u", "1">>),
            Str(<<"a", "@", "x">>), Some(Str(<<"p">>)), I64(3600), I64(1700003600))

\* a session as post_login_token grants it, with neither; its expiry is
\* beyond the dates chrono represents
BobSession ==
    Session(None, Str(<<"b", "t">>), Str(<<"u", "2">>), Str(<<"b", "@", "x">>),
            None, I64(60), I64_MAX)

\* the cookie values sent: two that to_string wrote, a text that is not
\* base64url, and base64url of a JSON object without the Session fields
CookieValues ==
    {to_string(AliceSession), to_string(BobSession), Str(<<"!", "!">>),
     b64_encode(Str(<<"{", "}">>))}

Cookies == {None} \cup {Some(c) : c \in CookieValues}

NoProfile == [user_id |-> <<>>, email |-> <<>>, expires_in |-> I64(0), expires |-> I64(0)]

AliceProfile ==
    [user_id |-> Str(<<"u", "1">>), email |-> Str(<<"a", "@", "x">>),
     expires_in |-> I64(3600), expires |-> I64(1700003600)]

TokenChecks ==
    {TokenChecked("profile", AliceProfile), TokenChecked("none", NoProfile),
     TokenChecked("err", NoProfile)}

\* the segments continue_conversation_url is built from
UrlSegments == {CHAT_ORIGIN, Str(<<"/", "f", "o", "o">>), Str(<<"?", "u", "=">>)}

ShareUrls == {Flatten(segs) : segs \in SeqsUpTo(UrlSegments, MaxUrlSegs)}

NoUpstream == Upstream("none", 0, FALSE, NoShareData)

\* the answers of the upstream share endpoint to a request that was sent
UpstreamAnswers ==
    {Upstream("err", 0, FALSE, NoShareData),
     Upstream("ok", 200, FALSE, NoShareData),
     Upstream("ok", 502, FALSE, NoShareData),
     Upstream("ok", 200, TRUE, ShareArray),
     Upstream("ok", 404, TRUE, ShareObject(TRUE, "absent", <<>>)),
     Upstream("ok", 200, TRUE, ShareObject(FALSE, "absent", <<>>)),
     Upstream("ok", 200, TRUE, ShareObject(FALSE, "other", <<>>))}
    \cup {Upstream("ok", 200, TRUE, ShareObject(FALSE, "string", u)) : u \in ShareUrls}

\* the answers to a request made with the given URL prefix
Upstreams(url) ==
    IF CanSend(url) THEN UpstreamAnswers ELSE {Upstream("err", 0, FALSE, NoShareData)}

ShareIds == {"abc"}

NoAccount == [username |-> "", password |-> "", cf_turnstile_response |-> None]

\* AuthAccount as the login form posts it
Accounts ==
    {[username |-> "alice", password |-> "pw", cf_turnstile_response |-> t] :
        t \in {None, Some(""), Some("tok")}}

NoToken ==
    [refresh_token |-> None, access_token |-> <<>>, user_id |-> <<>>, email |-> <<>>,
     picture |-> <<>>, expires_in |-> I64(0), expires |-> I64(0)]

\* AuthenticateToken values, with and without a refresh token
Tokens ==
    {[NoToken EXCEPT !.refresh_token = rt, !.access_token = Str(<<"a", "t">>),
                     !.user_id = Str(<<"u", "1">>), !.email = Str(<<"a", "@", "x">>),
                     !.picture = Str(<<"p">>), !.expires_in = I64(3600),
                     !.expires = I64(1700003600)] :
        rt \in {None, Some(Str(<<"r", "t">>))}}

Exchanged(kind, token) == [kind |-> kind, token |-> token]

NoExchange == Exchanged("none", NoToken)

\* how do_access_token and the conversion of its token end
Exchanges ==
    {Exchanged("err", NoToken), Exchanged("inconvertible", NoToken)}
    \cup {Exchanged("ok", t) : t \in Tokens}

Pictured(kind, picture) == [kind |-> kind, picture |-> picture]

NoPicture == Pictured("none", None)

\* how do_get_user_picture ends
Pictures == {Pictured("ok", Some(Str(<<"p">>))), Pictured("ok", None), Pictured("err", None)}

Peers == {None, Some("10.0.0.1")}

CaptchaAnswers == {"ok", "send_err", "http_err"}

RevokeAnswers == {"ok", "err"}

ImageParams == {None, Some([url |-> "https://img.example/p.png", w |-> "64", q |-> "75"])}

\* the statuses response_convert may give its answer
ConvertedStatuses == {200, 502}

Queries == {{}, {<<"chatId", "q">>}}

\* a request: the route it matched, what it carries, and the answers the
\* environment gives while it is handled
NoRequest ==
    [handler |-> "", route |-> "", cookie |-> None,
     token_check |-> TokenChecked("none", NoProfile), conversation_id |-> None,
     query |-> {}, share_id |-> "", upstream |-> NoUpstream, account |-> NoAccount,
     peer |-> None, captcha |-> "", exchange |-> NoExchange, authorization |-> None,
     picture |-> NoPicture, revoke |-> "", params |-> None, converted |-> 0,
     path |-> <<>>]

Request(handler, route) == [NoRequest EXCEPT !.handler = handler, !.route = route]

(***************************************************************************)
(* Spec: one action per handler                                            *)
(***************************************************************************)
\* the handler returns: its response is written, its calls were made
Respond(r) == resp' = Some(r.resp) /\ calls' = r.calls

Idle == req = None /\ resp = None /\ calls = <<>>

GetAuth ==
    /\ Idle
    /\ req' = Some(Request("get_auth", "/auth"))
    /\ Respond(get_auth(TEMPLATE_DATA))
    /\ UNCHANGED <<TEMPLATE_DATA, STATIC_FILES, codec_in, codec_str, codec_out, routed, boot>>

GetLogin ==
    /\ Idle
    /\ req' = Some(Request("get_login", "/auth/login"))
    /\ Respond(get_login(TEMPLATE_DATA))
    /\ UNCHANGED <<TEMPLATE_DATA, STATIC_FILES, codec_in, codec_str, codec_out, routed, boot>>

PostLogin ==
    /\ Idle
    /\ \E account \in Accounts, peer \in Peers, captcha \in CaptchaAnswers,
          exchange \in Exchanges :
          /\ req' = Some([Request("post_login", "/auth/login") EXCEPT
                            !.account = account, !.peer = peer, !.captcha = captcha,
                            !.exchange = exchange])
          /\ Respond(post_login(TEMPLATE_DATA, account, peer, captcha, exchange))
    /\ UNCHANGED <<TEMPLATE_DATA, STATIC_FILES, codec_in, codec_str, codec_out, routed, boot>>

PostLoginToken ==
    /\ Idle
    /\ \E authorization \in {None, Some(Str(<<"a", "t">>))}, tc \in TokenChecks,
          picture \in Pictures :
          /\ req' = Some([Request("post_login_token", "/auth/login/token") EXCEPT
                            !.authorization = authorization, !.token_check = tc,
                            !.picture = picture])
          /\ Respond(post_login_token(authorization, tc, picture))
    /\ UNCHANGED <<TEMPLATE_DATA, STATIC_FILES, codec_in, codec_str, codec_out, routed, boot>>

GetLogout ==
    /\ Idle
    /\ \E cookie \in Cookies, revoke \in RevokeAnswers, tc \in TokenChecks :
          \* tc: what token::check would say of the token, which get_logout never asks
          /\ req' = Some([Request("get_logout", "/auth/logout") EXCEPT
                            !.cookie = cookie, !.revoke = revoke, !.token_check = tc])
          /\ Respond(get_logout(cookie, revoke))
    /\ UNCHANGED <<TEMPLATE_DATA, STATIC_FILES, codec_in, codec_str, codec_out, routed, boot>>

GetSession ==
    /\ Idle
    /\ \E cookie \in Cookies, tc \in TokenChecks :
          /\ req' = Some([Request("get_session", "/auth/session") EXCEPT
                            !.cookie = cookie, !.token_check = tc])
          /\ Respond(get_session(cookie, tc))
    /\ UNCHANGED <<TEMPLATE_DATA, STATIC_FILES, codec_in, codec_str, codec_out, routed, boot>>

\* the three routes of get_chat and the conversation id each captures
ChatRoutes ==
    {<<"/", None>>, <<"/c", None>>, <<"/c/{conversation_id}", Some("c1")>>}

GetChat ==
    /\ Idle
    /\ \E route \in ChatRoutes, cookie \in Cookies, tc \in TokenChecks, query \in Queries :
          /\ req' = Some([Request("get_chat", route[1]) EXCEPT
                            !.cookie = cookie, !.token_check = tc,
                            !.conversation_id = route[2], !.query = query])
          /\ Respond(get_chat(cookie, tc, route[2], query, TEMPLATE_DATA))
    /\ UNCHANGED <<TEMPLATE_DATA, STATIC_FILES, codec_in, codec_str, codec_out, routed, boot>>

ChatInfoRoutes ==
    {"/_next/data/{BUILD_ID}/index.json", "/_next/data/{BUILD_ID}/c/{conversation_id}.json"}

GetChatInfo ==
    /\ Idle
    /\ \E route \in ChatInfoRoutes, cookie \in Cookies, tc \in TokenChecks :
          /\ req' = Some([Request("get_chat_info", route) EXCEPT
                            !.cookie = cookie, !.token_check = tc])
          /\ Respond(get_chat_info(cookie, tc))
    /\ UNCHANGED <<TEMPLATE_DATA, STATIC_FILES, codec_in, codec_str, codec_out, routed, boot>>

\* a share request with its cookie and the answers it may get
ShareRequest(handler, route, cookie, tc, share_id, upstream) ==
    [Request(handler, route) EXCEPT !.cookie = cookie, !.token_check = tc,
                                    !.share_id = share_id, !.upstream = upstream]

GetShareChat ==
    /\ Idle
    /\ \E cookie \in Cookies, tc \in TokenChecks, share_id \in ShareIds,
          upstream \in Upstreams(get_url(TEMPLATE_DATA)) :
          /\ req' = Some(ShareRequest("get_share_chat", "/share/{share_id}",
                                      cookie, tc, share_id, upstream))
          /\ Respond(get_share_chat(cookie, tc, share_id, upstream, TEMPLATE_DATA))
    /\ UNCHANGED <<TEMPLATE_DATA, STATIC_FILES, codec_in, codec_str, codec_out, routed, boot>>

GetShareChatInfo ==
    /\ Idle
    /\ \E cookie \in Cookies, tc \in TokenChecks, share_id \in ShareIds,
          upstream \in Upstreams(get_url(TEMPLATE_DATA)) :
          /\ req' = Some(ShareRequest("get_share_chat_info",
                                      "/_next/data/{BUILD_ID}/share/{share_id}.json",
                                      cookie, tc, share_id, upstream))
          /\ Respond(get_share_chat_info(cookie, tc, share_id, upstream, TEMPLATE_DATA))
    /\ UNCHANGED <<TEMPLATE_DATA, STATIC_FILES, codec_in, codec_str, codec_out, routed, boot>>

GetShareChatContinue ==
    /\ Idle
    /\ \E share_id \in ShareIds :
          /\ req' = Some([Request("get_share_chat_continue", "/share/{share_id}/continue")
                            EXCEPT !.share_id = share_id])
          /\ Respond(get_share_chat_continue(share_id))
    /\ UNCHANGED <<TEMPLATE_DATA, STATIC_FILES, codec_in, codec_str, codec_out, routed, boot>>

GetShareChatContinueInfo ==
    /\ Idle
    /\ \E cookie \in Cookies, tc \in TokenChecks, share_id \in ShareIds,
          upstream \in Upstreams(get_url(TEMPLATE_DATA)) :
          /\ req' = Some(ShareRequest("get_share_chat_continue_info",
                                      "/_next/data/{BUILD_ID}/share/{share_id}/continue.json",
                                      cookie, tc, share_id, upstream))
          /\ Respond(get_share_chat_continue_info(cookie, tc, share_id, upstream,
                                                  TEMPLATE_DATA))
    /\ UNCHANGED <<TEMPLATE_DATA, STATIC_FILES, codec_in, codec_str, codec_out, routed, boot>>

\* the two redirect services: pattern, captured id, target
RedirectServices ==
    {<<"/chat", None, "/">>, <<"/chat/{conversation_id}", Some("c1"), "/">>}

ChatRedirect ==
    /\ Idle
    /\ \E service \in RedirectServices :
          /\ req' = Some([Request("redirect", service[1]) EXCEPT
                            !.conversation_id = service[2]])
          /\ Respond(redirect(service[3]))
    /\ UNCHANGED <<TEMPLATE_DATA, STATIC_FILES, codec_in, codec_str, codec_out, routed, boot>>

GetImage ==
    /\ Idle
    /\ \E params \in ImageParams, converted \in ConvertedStatuses :
          /\ req' = Some([Request("get_image", "/_next/image") EXCEPT
                            !.params = params, !.converted = converted])
          /\ Respond(get_image(params, converted))
    /\ UNCHANGED <<TEMPLATE_DATA, STATIC_FILES, codec_in, codec_str, codec_out, routed, boot>>

GetStaticResource ==
    /\ Idle
    /\ \E path \in RequestPaths :
          /\ req' = Some([Request("get_static_resource", "/_next/static/{tail:.*}")
                            EXCEPT !.path = path])
          /\ \E r \in get_static_resource(STATIC_FILES, path) : resp' = Some(r)
          /\ calls' = <<>>
    /\ UNCHANGED <<TEMPLATE_DATA, STATIC_FILES, codec_in, codec_str, codec_out, routed, boot>>

GetError404 ==
    /\ Idle
    /\ req' = Some(Request("get_error_404", "default_service"))
    /\ Respond(get_error_404)
    /\ UNCHANGED <<TEMPLATE_DATA, STATIC_FILES, codec_in, codec_str, codec_out, routed, boot>>

\* the response leaves; the server is ready for the next request
Deliver ==
    /\ resp # None
    /\ req' = None /\ resp' = None /\ calls' = <<>>
    /\ UNCHANGED <<TEMPLATE_DATA, STATIC_FILES, codec_in, codec_str, codec_out, routed, boot>>

\* the configuration is built once, before the first request
Init ==
    /\ TEMPLATE_DATA \in {TemplateDataFrom(launcher) : launcher \in Launchers}
    /\ STATIC_FILES \in AssetMaps
    /\ req = None /\ resp = None /\ calls = <<>>
    /\ codec_in = None /\ codec_str = None /\ codec_out = None
    /\ routed = None /\ boot = None

Next ==
    \/ GetAuth
    \/ GetLogin
    \/ PostLogin
    \/ PostLoginToken
    \/ GetLogout
    \/ GetSession
    \/ GetChat
    \/ GetChatInfo
    \/ GetShareChat
    \/ GetShareChatInfo
    \/ GetShareChatContinue
    \/ GetShareChatContinueInfo
    \/ ChatRedirect
    \/ GetImage
    \/ GetStaticResource
    \/ GetError404
    \/ Deliver

Spec == Init /\ [][Next]_vars

\* SpecCodec starts with a Session to encode; the gateway is idle
InitCodec ==
    /\ TEMPLATE_DATA = TemplateDataFrom([api_prefix |-> None, cf_site_key |-> None,
                                          cf_secret_key |-> None])
    /\ STATIC_FILES = <<>>
    /\ req = None /\ resp = None /\ calls = <<>>
    /\ codec_in \in {Some(s) : s \in CodecSessions \cup DamagedSessions}
    /\ codec_str = None
    /\ codec_out = None
    /\ routed = None /\ boot = None

SpecCodec == InitCodec /\ [][NextCodec]_vars

(***************************************************************************)
(* The route table of config()  (ui.rs:130-177)                            *)
(*                                                                         *)
(* A request path is the sequence of its segments: the text is "/" followed*)
(* by the segments joined with "/", so "/" is one empty segment and "/c/"  *)
(* is <<c, empty>>.  A segment is split at its last dot into a name and an *)
(* extension, because the patterns of the table tell segments apart by     *)
(* their extension only.                                                   *)
(***************************************************************************)
\* longest run of segments appended to a registered prefix in a request line
MaxTailSegs == 2

Seg(name, ext) == [name |-> name, ext |-> ext]
Word(name) == Seg(name, "")
EmptySeg == Seg("", "")

\* pattern elements: literal text, {param} ([^/]+), {param}.ext, {tail:.*} and
\* the file name expression {filename:.+\.(png|js|css|webp|json)}
Lit(seg) == [kind |-> "lit", seg |-> seg]
Param == [kind |-> "param", seg |-> EmptySeg]
ParamExt(ext) == [kind |-> "param_ext", seg |-> Seg("", ext)]
TailParam == [kind |-> "tail", seg |-> EmptySeg]
Filename == [kind |-> "filename", seg |-> EmptySeg]

\* the alternatives of the file name expression (ui.rs:169)
StaticExts == {"png", "js", "css", "webp", "json"}

\* web::get() and web::post() carry a method guard, web::to() and
\* web::redirect() answer every method
AnyMethod == "*"
Route(method, pattern, handler) ==
    [method |-> method, pattern |-> pattern, handler |-> handler]

DataPrefix == <<Lit(Word("_next")), Lit(Word("data")), Lit(Word(BUILD_ID))>>

\* the services in the order config() registers them
Routes ==
    << Route("GET", <<Lit(Word("auth"))>>, "get_auth"),
       Route("GET", <<Lit(Word("auth")), Lit(Word("login"))>>, "get_login"),
       Route("POST", <<Lit(Word("auth")), Lit(Word("login"))>>, "post_login"),
       Route("POST", <<Lit(Word("auth")), Lit(Word("login")), Lit(Word("token"))>>,
             "post_login_token"),
       Route("GET", <<Lit(Word("auth")), Lit(Word("logout"))>>, "get_logout"),
       Route("GET", <<Lit(Word("auth")), Lit(Word("session"))>>, "get_session"),
       Route("GET", <<Lit(EmptySeg)>>, "get_chat"),
       Route("GET", <<Lit(Word("c"))>>, "get_chat"),
       Route("GET", <<Lit(Word("c")), Param>>, "get_chat"),
       Route(AnyMethod, <<Lit(Word("chat"))>>, "redirect"),
       Route(AnyMethod, <<Lit(Word("chat")), Param>>, "redirect"),
       Route("GET", <<Lit(Word("share")), Param>>, "get_share_chat"),
       Route("GET", <<Lit(Word("share")), Param, Lit(Word("continue"))>>,
             "get_share_chat_continue"),
       Route("GET", DataPrefix \o <<Lit(Seg("index", "json"))>>, "get_chat_info"),
       Route("GET", DataPrefix \o <<Lit(Word("c")), ParamExt("json")>>, "get_chat_info"),
       Route("GET", DataPrefix \o <<Lit(Word("share")), ParamExt("json")>>,
             "get_share_chat_info"),
       Route("GET", DataPrefix \o <<Lit(Word("share")), Param, Lit(Seg("continue", "json"))>>,
             "get_share_chat_continue_info"),
       Route("GET", <<Lit(Word("_next")), Lit(Word("image"))>>, "get_image"),
       Route("GET", <<Filename>>, "get_static_resource"),
       Route(AnyMethod, <<Lit(Word("_next")), Lit(Word("static")), TailParam>>, "get_static_resource"),
       Route(AnyMethod, <<Lit(Word("fonts")), TailParam>>, "get_static_resource"),
       Route(AnyMethod, <<Lit(Word("ulp")), TailParam>>, "get_static_resource"),
       Route(AnyMethod, <<Lit(Word("sweetalert2")), TailParam>>, "get_static_resource") >>

\* .default_service(web::route().to(get_error_404))  (ui.rs:177)
DefaultService == "get_error_404"

\* the path from its i-th segment on matches the pattern from its i-th element on
RECURSIVE PatternMatchesFrom(_, _, _)
PatternMatchesFrom(pattern, path, i) ==
    IF i > Len(pattern)
    THEN Len(path) = i - 1
    ELSE CASE pattern[i].kind = "tail" -> Len(path) >= i
           [] pattern[i].kind = "filename" ->
                  /\ Len(path) >= i
                  /\ path[Len(path)].ext \in StaticExts
                  /\ (Len(path) > i \/ path[Len(path)].name # "")
           [] pattern[i].kind = "lit" ->
                  /\ Len(path) >= i
                  /\ path[i] = pattern[i].seg
                  /\ PatternMatchesFrom(pattern, path, i + 1)
           [] pattern[i].kind = "param" ->
                  /\ Len(path) >= i
                  /\ path[i] # EmptySeg
                  /\ PatternMatchesFrom(pattern, path, i + 1)
           [] pattern[i].kind = "param_ext" ->
                  /\ Len(path) >= i
                  /\ path[i].name # ""
                  /\ path[i].ext = pattern[i].seg.ext
                  /\ PatternMatchesFrom(pattern, path, i + 1)

PatternMatches(pattern, path) == PatternMatchesFrom(pattern, path, 1)

\* a service is eligible when its pattern matches and its method guard passes
RouteMatches(route, method, path) ==
    /\ route.method \in {AnyMethod, method}
    /\ PatternMatches(route.pattern, path)

\* a dispatcher that lets a later registration override an earlier one
RECURSIVE dispatch_last_from(_, _, _)
dispatch_last_from(method, path, i) ==
    IF i < 1 THEN DefaultService
    ELSE IF RouteMatches(Routes[i], method, path) THEN Routes[i].handler
    ELSE dispatch_last_from(method, path, i - 1)

dispatch_last(method, path) == dispatch_last_from(method, path, Len(Routes))

\* the services are tried in registration order and the first eligible one
\* handles the request; the default service handles what none accepts
RECURSIVE dispatch_from(_, _, _)
dispatch_from(method, path, i) ==
    IF i > Len(Routes) THEN DefaultService
    ELSE IF RouteMatches(Routes[i], method, path) THEN Routes[i].handler
    ELSE dispatch_from(method, path, i + 1)

dispatch(method, path) == dispatch_from(method, path, 1)

\* request lines: a registered prefix (or none) followed by up to MaxTailSegs
\* segments of every sort the patterns distinguish
Methods == {"GET", "POST", "HEAD"}
OtherBuildId == "other-build"
Heads ==
    { <<>>, <<Word("auth")>>, <<Word("auth"), Word("login")>>, <<Word("c")>>,
      <<Word("chat")>>, <<Word("share")>>, <<Word("share"), Word("abc")>>,
      <<Word("_next")>>, <<Word("_next"), Word("static")>>,
      <<Word("fonts")>>, <<Word("ulp")>>, <<Word("sweetalert2")>> }
    \cup UNION { { <<Word("_next"), Word("data"), Word(b)>>,
                   <<Word("_next"), Word("data"), Word(b), Word("c")>>,
                   <<Word("_next"), Word("data"), Word(b), Word("share")>>,
                   <<Word("_next"), Word("data"), Word(b), Word("share"), Word("abc")>> }
                 : b \in {BUILD_ID, OtherBuildId} }
TailSegs ==
    { EmptySeg, Word("login"), Word("token"), Word("logout"), Word("session"),
      Word("image"), Word("continue"), Word("abc"),
      Seg("index", "json"), Seg("continue", "json"), Seg("abc", "json"),
      Seg("", "json"), Seg("abc", "png"), Seg("abc", "txt") }
RECURSIVE TailsOf(_)
TailsOf(n) ==
    IF n = 0 THEN {<<>>}
    ELSE LET shorter == TailsOf(n - 1)
         IN  shorter \cup {Append(t, s) : t \in {u \in shorter : Len(u) = n - 1}, s \in TailSegs}
RequestLines == {h \o t : h \in Heads, t \in TailsOf(MaxTailSegs)} \ {<<>>}

\* a request line arrives on the connection and is routed
Dispatch ==
    /\ routed = None
    /\ \E method \in Methods, path \in RequestLines :
           routed' = Some([method |-> method, path |-> path,
                           handler |-> dispatch(method, path)])
    /\ UNCHANGED <<TEMPLATE_DATA, STATIC_FILES, req, resp, calls, codec_in, codec_str,
                   codec_out, boot>>

\* the gateway and the codec are idle while the table is exercised
Quiet ==
    /\ TEMPLATE_DATA = TemplateDataFrom([api_prefix |-> None, cf_site_key |-> None,
                                          cf_secret_key |-> None])
    /\ STATIC_FILES = <<>>
    /\ req = None /\ resp = None /\ calls = <<>>
    /\ codec_in = None /\ codec_str = None /\ codec_out = None

InitRoutes == Quiet /\ routed = None /\ boot = None

\* the selected handler has answered; the connection takes the next request
Served ==
    /\ routed # None
    /\ routed' = None
    /\ UNCHANGED <<TEMPLATE_DATA, STATIC_FILES, req, resp, calls, codec_in, codec_str,
                   codec_out, boot>>

NextRoutes == Dispatch \/ Served

SpecRoutes == InitRoutes /\ [][NextRoutes]_vars

(***************************************************************************)
(* config() called concurrently  (ui.rs:35-39, 112-179)                    *)
(*                                                                         *)
(* Every worker runs config(): it builds its own Tera instance, goes       *)
(* through INIT.call_once, and registers the routes, after which its       *)
(* handlers may run.  boot holds the statics that INIT guards              *)
(* (static_files for STATIC_FILES, template for TEMPLATE), the state of    *)
(* INIT, each caller's position, and two histories: the writes made to the *)
(* statics and the values the handlers read.  TEMPLATE_DATA is assigned    *)
(* outside ui.rs and is not part of boot.                                  *)
(***************************************************************************)
\* number of workers that call config()
NumCallers == 3

Callers == 1 .. NumCallers

\* Tera::default() with the six templates added by one caller (ui.rs:114-123)
Tera(c) == [templates |-> TEMPLATE, built_by |-> c]

\* a check of the flag with no exclusion between the callers
call_unguarded(state) ==
    IF state = "complete" THEN "return" ELSE "run"

\* std::sync::Once::call_once as seen by an arriving caller: the first runs
\* the closure, a caller arriving meanwhile blocks, a later one returns at once
call_once(state) ==
    CASE state = "incomplete" -> "run"
      [] state = "running" -> "block"
      [] state = "complete" -> "return"

Wrote(c, field) == [caller |-> c, field |-> field]

At(c, pc) == boot.pc[c] = pc
Goto(c, pc) == [boot.pc EXCEPT ![c] = pc]

OtherThanBoot ==
    UNCHANGED <<TEMPLATE_DATA, STATIC_FILES, req, resp, calls, codec_in, codec_str,
                codec_out, routed>>

\* if unsafe { super::DISABLE_UI } the caller registers nothing (ui.rs:113)
SkipUi ==
    \E c \in Callers :
        /\ At(c, "config") /\ boot.disable_ui
        /\ boot' = [boot EXCEPT !.pc = Goto(c, "disabled")]
        /\ OtherThanBoot

\* ui.rs:114-123
BuildTera ==
    \E c \in Callers :
        /\ At(c, "config") /\ ~boot.disable_ui
        /\ boot' = [boot EXCEPT !.pc = Goto(c, "call_once")]
        /\ OtherThanBoot

\* INIT.call_once(..) on arrival (ui.rs:125)
ArriveAtOnce ==
    \E c \in Callers :
        /\ At(c, "call_once")
        /\ LET outcome == call_once(boot.once)
           IN  boot' = CASE outcome = "run" ->
                              [boot EXCEPT !.once = "running", !.pc = Goto(c, "write_static_files")]
                         [] outcome = "block" ->
                              [boot EXCEPT !.pc = Goto(c, "blocked"),
                                           !.blocked = boot.blocked \cup {c}]
                         [] outcome = "return" ->
                              [boot EXCEPT !.pc = Goto(c, "routes")]
        /\ OtherThanBoot

\* STATIC_FILES = Some(generate())  (ui.rs:126)
WriteStaticFiles ==
    \E c \in Callers :
        /\ At(c, "write_static_files")
        /\ boot' = [boot EXCEPT !.static_files = Some(boot.generated),
                                !.writes = Append(boot.writes, Wrote(c, "STATIC_FILES")),
                                !.pc = Goto(c, "write_template")]
        /\ OtherThanBoot

\* TEMPLATE = Some(tera), and the closure returns  (ui.rs:127-128)
WriteTemplate ==
    \E c \in Callers :
        /\ At(c, "write_template")
        /\ boot' = [boot EXCEPT !.template = Some(Tera(c)),
                                !.writes = Append(boot.writes, Wrote(c, "TEMPLATE")),
                                !.once = "complete",
                                !.pc = Goto(c, "routes")]
        /\ OtherThanBoot

\* a blocked caller resumes when the closure has returned
Resume ==
    \E c \in Callers :
        /\ At(c, "blocked") /\ boot.once = "complete"
        /\ boot' = [boot EXCEPT !.pc = Goto(c, "routes")]
        /\ OtherThanBoot

\* cfg.route(..)...default_service(..)  (ui.rs:130-177)
RegisterRoutes ==
    \E c \in Callers :
        /\ At(c, "routes")
        /\ boot' = [boot EXCEPT !.pc = Goto(c, "serving")]
        /\ OtherThanBoot

\* a handler of a serving worker reads the statics: TEMPLATE in
\* render_template (ui.rs:750, 793), STATIC_FILES in get_static_resource
HandlerRead ==
    \E c \in Callers :
        /\ At(c, "serving")
        /\ boot' = [boot EXCEPT !.reads = boot.reads \cup
                       {[static_files |-> boot.static_files, template |-> boot.template]}]
        /\ OtherThanBoot

InitBoot ==
    /\ Quiet /\ routed = None
    /\ boot \in [once : {"incomplete"},
                 pc : {[c \in Callers |-> "config"]},
                 disable_ui : BOOLEAN,
                 generated : AssetMaps,
                 static_files : {None},
                 template : {None},
                 writes : {<<>>},
                 blocked : {{}},
                 reads : {{}}]

NextBoot ==
    \/ SkipUi
    \/ BuildTera
    \/ ArriveAtOnce
    \/ WriteStaticFiles
    \/ WriteTemplate
    \/ Resume
    \/ RegisterRoutes
    \/ HandlerRead

SpecInit == InitBoot /\ [][NextBoot]_vars

(***************************************************************************)
(* Properties of the codec                                                 *)
(***************************************************************************)
\* the cookie string was decoded
Decoded == codec_str # None /\ codec_out # None

\* C7: for every Session s, Session::try_from(s.to_string()) is Ok and
\* the Session it yields equals s in each of the seven fields
C7_RoundTrip ==
    (Decoded /\ Unwrap(codec_str).kind = "encoded") =>
        /\ Unwrap(codec_out).tag = "Ok"
        /\ \A f \in FieldNames :
              Unwrap(codec_out).val[f] = Unwrap(codec_in)[f]

\* a Session with both Options absent, a string of escaped and multi-byte
\* characters and the extreme expiry came back from its cookie string
C7_Witness ==
    /\ Decoded /\ Unwrap(codec_str).kind = "encoded"
    /\ Unwrap(codec_out).tag = "Ok"
    /\ Unwrap(codec_in).refresh_token = None
    /\ Unwrap(codec_in).picture = None
    /\ Unwrap(codec_in).access_token = <<34, 128512>>
    /\ Unwrap(codec_out).val.access_token = <<34, 128512>>

\* C8: try_from of a string that is not base64url, or whose bytes are not
\* JSON of the Session schema, is Err(ErrorUnauthorized): no panic, no Session
C8_MalformedIsErr ==
    (Decoded /\ Unwrap(codec_str).kind \in {"bad_base64", "bad_json"}) =>
        /\ Unwrap(codec_out).tag = "Err"
        /\ Unwrap(codec_out).status = 401

\* a cookie that is base64url of JSON lacking what the schema requires
\* was decoded, and the answer was the error value
C8_Witness ==
    /\ Decoded /\ Unwrap(codec_str).kind = "bad_json"
    /\ Unwrap(codec_out).tag = "Err"

(***************************************************************************)
(* Properties of the gateway                                               *)
(***************************************************************************)
\* handler h has answered the request in req
Answered(h) == req # None /\ resp # None /\ Unwrap(req).handler = h

\* the cookie values that hold a Session: those to_string wrote
WrittenCookies == {Some(to_string(AliceSession)), Some(to_string(BobSession))}

\* the request carries a cookie that fails decode or token validation
CookieFails(r) ==
    r.cookie # None /\ (r.cookie \notin WrittenCookies \/ r.token_check.kind = "err")

\* the request carries a cookie that decodes and whose token validates
CookieHolds(r) == r.cookie \in WrittenCookies /\ r.token_check.kind # "err"

\* the request carries no session: no cookie, or one that fails
NoSession(r) == r.cookie = None \/ CookieFails(r)

DataHandlers == {"get_chat_info", "get_share_chat_info", "get_share_chat_continue_info"}

ShareHandlers == {"get_share_chat", "get_share_chat_info", "get_share_chat_continue_info"}

GatedHandlers == {"get_session", "get_chat"} \cup DataHandlers \cup ShareHandlers

\* HTTP 200 with the body that sends the SPA to location
IsSoftRedirect(response, location) ==
    /\ response.status = 200
    /\ response.body.kind = "json"
    /\ response.body.json = SoftRedirect(location)

\* a 3xx response whose Location is the login page, with or without a
\* next parameter
IsLoginRedirect(response) ==
    /\ response.status >= 300 /\ response.status < 400
    /\ response.location # <<>>
    /\ response.location[1] \in {"/auth/login", "/auth/login?next=%2Fshare%2F"}

\* C1: a data-endpoint request whose cookie is missing, undecodable or
\* fails token validation is answered with status 200 and the body
\* {"pageProps":{"__N_REDIRECT":"/auth/login?","__N_REDIRECT_STATUS":307},
\* "__N_SSP":true}, never with a 3xx redirect
C1_DataSoftRedirect ==
    (req # None /\ resp # None /\ Unwrap(req).handler \in DataHandlers
        /\ NoSession(Unwrap(req))) =>
        IsSoftRedirect(Unwrap(resp), <<"/auth/login?">>)

\* the upstream answered a share request of a valid session with a JSON
\* object whose continue_conversation_url is a string
ShareLinkGiven ==
    /\ req # None /\ resp # None
    /\ Unwrap(req).handler \in ShareHandlers
    /\ CookieHolds(Unwrap(req))
    /\ Unwrap(req).upstream.send = "ok" /\ Unwrap(req).upstream.parsed
    /\ Unwrap(req).upstream.value.kind = "object"
    /\ Unwrap(req).upstream.value.url_kind = "string"

\* the share data a response embeds, in its JSON body or in the props of
\* its page
Embedded(response) ==
    IF response.body.kind = "json" THEN response.body.json.share_data
    ELSE response.body.ctx.props.share_data

\* the value without the origin it starts with, or the value itself
StripOrigin(u) ==
    IF starts_with(u, CHAT_ORIGIN) THEN SubSeq(u, Len(CHAT_ORIGIN) + 1, Len(u)) ELSE u

\* C2: the continue_conversation_url embedded in a share response is the
\* upstream value without its leading https://chat.openai.com when it
\* starts with that origin and the upstream value otherwise; the origin
\* is not removed anywhere else in the value
C2_OnlyLeadingOrigin ==
    ShareLinkGiven =>
        /\ ~Unwrap(resp).raised
        /\ Embedded(Unwrap(resp)).url = StripOrigin(Unwrap(req).upstream.value.url)

\* the upstream failed a share request of a valid session: the request
\* did not complete, the body is no JSON, or the body reports an error
UpstreamFailed ==
    /\ req # None /\ resp # None
    /\ Unwrap(req).handler \in ShareHandlers
    /\ CookieHolds(Unwrap(req))
    /\ \/ Unwrap(req).upstream.send = "err"
       \/ ~Unwrap(req).upstream.parsed
       \/ Unwrap(req).upstream.value.is_error

\* the synthesized not-found response of a share handler
IsNotFound(handler, response) ==
    IF handler = "get_share_chat"
    THEN /\ response.body.kind = "html"
         /\ response.body.template = TEMP_404
         /\ response.body.ctx.props.kind = "error_envelope"
         /\ response.body.ctx.props.status_code = 404
         /\ response.body.ctx.props.page = "/_error"
    ELSE /\ response.body.kind = "json"
         /\ response.body.json = NotFoundJson

\* C3: every upstream failure on a share route with a valid session gives
\* the synthesized not-found response ({"notFound": true}, or the 404
\* page); no server error with the upstream error text reaches the
\* client and no upstream error body is embedded as share data
C3_UpstreamFailureIsNotFound ==
    UpstreamFailed =>
        /\ ~Unwrap(resp).raised
        /\ IsNotFound(Unwrap(req).handler, Unwrap(resp))

\* C4: the static resolver answers a path that is a registered key with
\* 200 and that key's bytes and mime type, and any other path with 404,
\* also a path that is a substring of a registered key
C4_ExactKey ==
    Answered("get_static_resource") =>
        IF Unwrap(req).path \in DOMAIN STATIC_FILES
        THEN Unwrap(resp) = StaticOk(STATIC_FILES[Unwrap(req).path])
        ELSE Unwrap(resp).status = 404

\* C5: GET /auth/logout answers with a redirect to /auth/login and a
\* Set-Cookie that clears the session cookie (empty value, expired),
\* whatever the cookie holds and however the revocation ends
C5_LogoutAlwaysClears ==
    Answered("get_logout") =>
        /\ ~Unwrap(resp).raised
        /\ Unwrap(resp).status >= 300 /\ Unwrap(resp).status < 400
        /\ Unwrap(resp).location = <<"/auth/login">>
        /\ Unwrap(resp).set_cookie # None
        /\ Unwrap(Unwrap(resp).set_cookie).name = SESSION_ID
        /\ Unwrap(Unwrap(resp).set_cookie).value = <<>>
        /\ Unwrap(Unwrap(resp).set_cookie).expires = "now"

\* a logout whose cookie held a refresh token and whose revocation call
\* failed was answered with the clearing redirect
C5_Witness ==
    /\ Answered("get_logout")
    /\ Unwrap(req).revoke = "err"
    /\ Len(calls) = 1 /\ calls[1].endpoint = "do_revoke_token"
    /\ Unwrap(resp).status = 303
    /\ Unwrap(resp).set_cookie = Some(ClearedCookie)

\* both captcha keys are configured
CaptchaActive == IsSome(TEMPLATE_DATA.cf_site_key) /\ IsSome(TEMPLATE_DATA.cf_secret_key)

\* the login failed: no session cookie was set and no redirect to the index
LoginFailed(response) == response.set_cookie = None /\ response.status # 303

\* the challenge tokens a form may carry
ChallengeTokens == {None, Some(""), Some("tok"), Some("other")}

\* C6: with both captcha keys configured, a login whose challenge token
\* is absent or empty fails and no outbound call is made; with the pair
\* not fully configured, no verification call is made and the login ends
\* the same for every challenge token
C6_CaptchaGate ==
    Answered("post_login") =>
        /\ (CaptchaActive
              /\ Unwrap(req).account.cf_turnstile_response \in {None, Some("")}) =>
                /\ LoginFailed(Unwrap(resp))
                /\ calls = <<>>
        /\ ~CaptchaActive =>
                /\ \A k \in 1..Len(calls) : calls[k].endpoint # "siteverify"
                /\ \A t \in ChallengeTokens :
                      post_login(TEMPLATE_DATA,
                                 [Unwrap(req).account EXCEPT !.cf_turnstile_response = t],
                                 Unwrap(req).peer, Unwrap(req).captcha,
                                 Unwrap(req).exchange)
                        = Reply(Unwrap(resp), calls)

\* a login with both keys configured and an empty challenge token was
\* answered with the login form and its error, and nothing was called,
\* though the credentials would have been accepted
C6_Witness ==
    /\ Answered("post_login")
    /\ CaptchaActive
    /\ Unwrap(req).account.cf_turnstile_response = Some("")
    /\ Unwrap(req).exchange.kind = "ok"
    /\ Unwrap(resp).body.kind = "html"
    /\ Unwrap(resp).body.template = TEMP_LOGIN
    /\ Unwrap(resp).body.ctx.error = Some("Missing cf_captcha_response")
    /\ calls = <<>>

\* C9: a GET of /, /c or /c/{id} whose cookie is missing, undecodable or
\* fails token validation is answered with status 302 or 307 and
\* Location /auth/login, and no template is rendered
C9_ChatPageRedirects ==
    (Answered("get_chat") /\ NoSession(Unwrap(req))) =>
        /\ Unwrap(resp).status \in {302, 307}
        /\ Unwrap(resp).location = <<"/auth/login">>
        /\ Unwrap(resp).body.kind # "html"

\* a GET of /c/{id} whose cookie decodes to a Session and whose token
\* fails validation was redirected to the login page
C9_Witness ==
    /\ Answered("get_chat")
    /\ Unwrap(req).route = "/c/{conversation_id}"
    /\ Unwrap(req).cookie = Some(to_string(AliceSession))
    /\ Unwrap(req).token_check.kind = "err"
    /\ Unwrap(resp).status = 302
    /\ Unwrap(resp).location = <<"/auth/login">>

\* C10: on every session-gated route, GET /auth/session included, a
\* cookie that fails decode or token validation is answered with a login
\* redirect or with the HTTP 200 soft-redirect body, never with an error
\* response (401, other 4xx, 5xx) raised to the client
C10_NeverRaised ==
    (req # None /\ resp # None /\ Unwrap(req).handler \in GatedHandlers
        /\ CookieFails(Unwrap(req))) =>
        /\ ~Unwrap(resp).raised
        /\ Unwrap(resp).status < 400
        /\ \/ IsLoginRedirect(Unwrap(resp))
           \/ /\ Unwrap(resp).status = 200
              /\ Unwrap(resp).body.kind = "json"
              /\ Unwrap(resp).body.json.kind = "soft_redirect"

\* the captcha check of the login in req returns an Err
CaptchaFails(r) ==
    /\ CaptchaActive
    /\ \/ r.account.cf_turnstile_response \in {None, Some("")}
       \/ r.peer # None /\ r.captcha \in {"send_err", "http_err"}

\* the captcha check of the login in req panics: a token to verify and no
\* peer address
CaptchaPanics(r) ==
    /\ CaptchaActive
    /\ r.account.cf_turnstile_response \notin {None, Some("")}
    /\ r.peer = None

\* the captcha check of the login in req returns Ok
CaptchaPasses(r) == ~CaptchaFails(r) /\ ~CaptchaPanics(r)

\* the login form, rendered with the submitted user name and an error
\* text, without redirect and without cookie
IsLoginForm(response, username) ==
    /\ ~response.raised
    /\ response.status = 200
    /\ response.body.kind = "html"
    /\ response.body.template = TEMP_LOGIN
    /\ response.body.ctx.username = Some(username)
    /\ response.body.ctx.error # None
    /\ response.body.ctx.error # Some("")
    /\ response.location = <<>>
    /\ response.set_cookie = None

\* C11: every failed login submission (captcha check failing, credential
\* exchange rejecting, exchanged token failing conversion) renders the
\* login form again with the error text and the submitted user name, with
\* no redirect and no session cookie; a cookie is set only when the
\* credential exchange succeeded
C11_FailedLoginRendersForm ==
    Answered("post_login") =>
        /\ (\/ CaptchaFails(Unwrap(req))
            \/ CaptchaPasses(Unwrap(req)) /\ Unwrap(req).exchange.kind \in {"err", "inconvertible"}) =>
                IsLoginForm(Unwrap(resp), Unwrap(req).account.username)
        /\ Unwrap(resp).set_cookie # None => Unwrap(req).exchange.kind = "ok"

\* C11 as the code has it: a login failed by the captcha check or by the
\* credential exchange renders the login form again with the error text
\* and the submitted user name, no redirect, no cookie; a token that fails
\* conversion is answered with a raised 500, no redirect, no cookie; a
\* captcha check without peer address panics; a cookie is set only when
\* the captcha check passed and the exchange succeeded
C11_FailedLoginAmended ==
    Answered("post_login") =>
        /\ (\/ CaptchaFails(Unwrap(req))
            \/ CaptchaPasses(Unwrap(req)) /\ Unwrap(req).exchange.kind = "err") =>
                IsLoginForm(Unwrap(resp), Unwrap(req).account.username)
        /\ (CaptchaPasses(Unwrap(req)) /\ Unwrap(req).exchange.kind = "inconvertible") =>
                /\ Unwrap(resp).raised
                /\ Unwrap(resp).status = 500
                /\ Unwrap(resp).location = <<>>
                /\ Unwrap(resp).set_cookie = None
        /\ CaptchaPanics(Unwrap(req)) => Unwrap(resp) = PanicResponse
        /\ Unwrap(resp).set_cookie # None =>
                /\ CaptchaPasses(Unwrap(req))
                /\ Unwrap(req).exchange.kind = "ok"

\* a login whose captcha was verified and whose credentials the exchange
\* rejected was answered with the login form, the user name and the error
C11_Witness ==
    /\ Answered("post_login")
    /\ CaptchaActive
    /\ Unwrap(req).exchange.kind = "err"
    /\ Len(calls) = 2 /\ calls[2].endpoint = "do_access_token"
    /\ IsLoginForm(Unwrap(resp), "alice")

\* C12: a request to /chat/{id} is answered with a redirect whose
\* Location is /c/{id} for the same id, and a request to /chat with a
\* redirect whose Location is /
C12_ChatRedirectKeepsId ==
    Answered("redirect") =>
        /\ Unwrap(resp).status >= 300 /\ Unwrap(resp).status < 400
        /\ Unwrap(resp).location =
              IF Unwrap(req).conversation_id = None THEN <<"/">>
              ELSE <<"/c/", Unwrap(Unwrap(req).conversation_id)>>

(***************************************************************************)
(* Properties of the route table                                           *)
(***************************************************************************)
\* what follows /_next/data/{build id} in the four data-endpoint paths, with
\* the handler registered for it
DataEndpoints ==
    { [rest |-> <<Seg("index", "json")>>, handler |-> "get_chat_info"],
      [rest |-> <<Word("c"), Seg("abc", "json")>>, handler |-> "get_chat_info"],
      [rest |-> <<Word("share"), Seg("abc", "json")>>, handler |-> "get_share_chat_info"],
      [rest |-> <<Word("share"), Word("abc"), Seg("continue", "json")>>,
       handler |-> "get_share_chat_continue_info"] }

DataPath(build, d) == <<Word("_next"), Word("data"), Word(build)>> \o d.rest

\* the services that accept a request line
Eligible(method, path) == {i \in DOMAIN Routes : RouteMatches(Routes[i], method, path)}

\* the static-extension pattern accepts the request line
GlobAccepts(method, path) ==
    \E i \in Eligible(method, path) : Routes[i].pattern = <<Filename>>

\* C13: a request line reaches the handler of the earliest-registered service
\* that accepts it and the 404 handler when none does; GET on a data-endpoint
\* path with the fixed build id reaches its data handler although the
\* static-extension pattern accepts it too, and the same path under another
\* build id reaches no data handler
C13_EarliestMatchWins ==
    routed # None =>
        LET r == Unwrap(routed)
            M == Eligible(r.method, r.path)
        IN  /\ M = {} => r.handler = DefaultService
            /\ M # {} => r.handler = Routes[Least(M)].handler
            /\ \A d \in DataEndpoints :
                   /\ (r.method = "GET" /\ r.path = DataPath(BUILD_ID, d)) =>
                          r.handler = d.handler /\ GlobAccepts(r.method, r.path)
                   /\ r.path = DataPath(OtherBuildId, d) => r.handler \notin DataHandlers

\* GET on a data-endpoint path with the fixed build id has been routed to its
\* data handler
C13_Witness ==
    /\ routed # None
    /\ Unwrap(routed).method = "GET"
    /\ Unwrap(routed).path = <<Word("_next"), Word("data"), Word(BUILD_ID), Word("c"),
                               Seg("abc", "json")>>
    /\ Unwrap(routed).handler = "get_chat_info"

(***************************************************************************)
(* Properties of the initialization                                        *)
(***************************************************************************)
\* the writes made so far to one of the guarded statics
WritesTo(field) == SelectSeq(boot.writes, LAMBDA w : w.field = field)

\* the callers that are past INIT.call_once
PastGate == {c \in Callers : boot.pc[c] \in {"routes", "serving"}}

\* each guarded static is written at most once and by the same caller; once
\* the gate is complete both hold the values of that one caller; a caller past
\* the gate finds both set; no handler has read an unset static
ConfigWrittenOnce ==
    /\ Len(WritesTo("STATIC_FILES")) <= 1
    /\ Len(WritesTo("TEMPLATE")) <= 1
    /\ \A i, j \in DOMAIN boot.writes : boot.writes[i].caller = boot.writes[j].caller
    /\ boot.once = "complete" =>
           /\ Len(boot.writes) = 2
           /\ boot.static_files = Some(boot.generated)
           /\ boot.template = Some(Tera(boot.writes[1].caller))
    /\ PastGate # {} =>
           /\ boot.once = "complete"
           /\ boot.static_files # None
           /\ boot.template # None
    /\ \A r \in boot.reads :
           /\ r.static_files = Some(boot.generated)
           /\ r.template # None
           /\ r.template = boot.template

\* a step taken after the gate is complete leaves the guarded statics as they are
ConfigStable ==
    boot.once = "complete" =>
        /\ boot'.static_files = boot.static_files
        /\ boot'.template = boot.template

\* C14: however the callers of config() interleave, the asset map and the
\* template set are written exactly once and by one caller, every caller past
\* the gate sees the completed values, the values never change afterwards,
\* and no handler reads them while they are unset
C14_InitializedOnce == []ConfigWrittenOnce /\ [][ConfigStable]_vars

\* a caller was blocked at the gate while another ran the closure, every
\* caller now serves, and a handler has read the statics
C14_Witness ==
    /\ boot.blocked # {}
    /\ boot.reads # {}
    /\ \A c \in Callers : boot.pc[c] = "serving"

(***************************************************************************)
(* Properties of the use of the session                                    *)
(***************************************************************************)
\* the handlers that read the session cookie
CookieHandlers == GatedHandlers \cup {"get_logout"}

\* the user object a response carries, in its JSON body or in its page
UserIn(response) ==
    IF response.body.kind = "json" THEN response.body.json.user
    ELSE response.body.ctx.props.user

\* a field of the session of the cookie went into the response or to upstream
UsesSession(response, cs) ==
    \/ UserIn(response).present
    \/ \E i \in DOMAIN cs : cs[i].endpoint \in {"share", "do_revoke_token"}

\* C15: a handler embeds the user profile or the access token of the cookie's
\* session, sends the access token to the upstream share endpoint or sends the
\* refresh token to the upstream revocation only when the cookie decoded and
\* its access token passed token validation
C15_SessionUseRequiresValidation ==
    \A h \in CookieHandlers :
        (Answered(h) /\ UsesSession(Unwrap(resp), calls)) => CookieHolds(Unwrap(req))

(***************************************************************************)
(* Properties of the outbound calls                                        *)
(***************************************************************************)
\* the call to the endpoint failed, by the answers the request in r got
OutboundFailed(r, endpoint) ==
    CASE endpoint = "siteverify" -> r.captcha \in {"send_err", "http_err"}
      [] endpoint = "do_access_token" -> r.exchange.kind = "err"
      [] endpoint = "do_get_user_picture" -> r.picture.kind = "err"
      [] endpoint = "do_revoke_token" -> r.revoke = "err"
      [] endpoint = "share" -> r.upstream.send = "err"
      [] endpoint = "image" -> r.converted # 200
      [] OTHER -> FALSE

\* C16: while one request is handled each outbound endpoint is called at most
\* once, and a call that failed is the last one made before the response
C16_NoRetry ==
    (req # None /\ resp # None) =>
        /\ \A i, j \in DOMAIN calls : calls[i].endpoint = calls[j].endpoint => i = j
        /\ \A i \in DOMAIN calls :
               OutboundFailed(Unwrap(req), calls[i].endpoint) => i = Len(calls)

\* a share page whose upstream request failed has been answered after one call
C16_Witness ==
    /\ Answered("get_share_chat")
    /\ Len(calls) = 1
    /\ calls[1].endpoint = "share"
    /\ Unwrap(req).upstream.send = "err"
    /\ Unwrap(resp).status = 500

====
